---------------------------- MODULE Spec2Model ----------------------------
(***************************************************************************)
(* Flow interpreter and session store of the shop-update chatbot.          *)
(*                                                                         *)
(*   src/src/conversation/memory.ts           the in-memory session store  *)
(*   src/src/conversation/flow-controller.ts  the flow interpreter         *)
(*                                            (second createFlowController,*)
(*                                            lines 258-959)               *)
(*   src/tests/prod/prod.test.ts              the flow definition and the  *)
(*                                            message table                *)
(*                                                                         *)
(* Strings are tuples of one-character strings so that trim, toLowerCase,  *)
(* split, indexOf, parseFloat and parseInt are computed, not assumed.      *)
(* An optional value (a JavaScript value that may be undefined) is the     *)
(* empty tuple when undefined and the one-element tuple <<v>> otherwise.   *)
(***************************************************************************)
EXTENDS Integers, Sequences, FiniteSets, TLC

(***************************************************************************)
(* Optional values                                                         *)
(***************************************************************************)
Absent == << >>

Some(v) == << v >>

IsSome(o) == o # << >>

Val(o) == o[1]

(***************************************************************************)
(* String primitives of the JavaScript runtime                             *)
(***************************************************************************)
UpperChars == <<"A","B","C","D","E","F","G","H","I","J","K","L","M",
                "N","O","P","Q","R","S","T","U","V","W","X","Y","Z">>

LowerChars == <<"a","b","c","d","e","f","g","h","i","j","k","l","m",
                "n","o","p","q","r","s","t","u","v","w","x","y","z">>

WhiteSpace == {" ", "\n", "\t"}

Digits == <<"0","1","2","3","4","5","6","7","8","9">>

DigitChars == {Digits[i] : i \in 1..10}

IsDigit(ch) == ch \in DigitChars

DigitVal(ch) == (CHOOSE i \in 1..10 : Digits[i] = ch) - 1

\* the lower-case letter of every upper-case letter
lowerOf ==
    [ch \in {UpperChars[i] : i \in 1..26} |->
        LowerChars[CHOOSE i \in 1..26 : UpperChars[i] = ch]]

toLowerChar(ch) == IF ch \in DOMAIN lowerOf THEN lowerOf[ch] ELSE ch

toLowerCase(s) == [i \in 1..Len(s) |-> toLowerChar(s[i])]

RECURSIVE trimStart(_)
trimStart(s) ==
    IF s # << >> /\ Head(s) \in WhiteSpace THEN trimStart(Tail(s)) ELSE s

RECURSIVE trimEnd(_)
trimEnd(s) ==
    IF s # << >> /\ s[Len(s)] \in WhiteSpace
    THEN trimEnd(SubSeq(s, 1, Len(s) - 1))
    ELSE s

trim(s) == trimEnd(trimStart(s))

\* 1-based position of the first occurrence of ch in s, 0 when there is none
\* (JavaScript's indexOf answers -1 there)
indexOf(s, ch) ==
    IF \E i \in 1..Len(s) : s[i] = ch
    THEN CHOOSE i \in 1..Len(s) : s[i] = ch /\ \A j \in 1..(i - 1) : s[j] # ch
    ELSE 0

RECURSIVE split(_, _)
split(s, ch) ==
    LET i == indexOf(s, ch)
    IN  IF i = 0 THEN << s >>
        ELSE << SubSeq(s, 1, i - 1) >> \o split(SubSeq(s, i + 1, Len(s)), ch)

startsWith(s, p) == Len(s) >= Len(p) /\ SubSeq(s, 1, Len(p)) = p

\* the longest prefix of s made of decimal digits
RECURSIVE digitPrefix(_)
digitPrefix(s) ==
    IF s # << >> /\ IsDigit(Head(s))
    THEN << Head(s) >> \o digitPrefix(Tail(s))
    ELSE << >>

RECURSIVE digitsToNat(_)
digitsToNat(d) ==
    IF d = << >> THEN 0
    ELSE 10 * digitsToNat(SubSeq(d, 1, Len(d) - 1)) + DigitVal(d[Len(d)])

(***************************************************************************)
(* Numbers.  A Number is NaN, +/-Infinity, or the decimal  m * 10^(-s)     *)
(* with a sign; s is the least scale that keeps m an integer.              *)
(***************************************************************************)
NaN == [kind |-> "nan", neg |-> FALSE, m |-> 0, s |-> 0]

Infinity(neg) == [kind |-> "inf", neg |-> neg, m |-> 0, s |-> 0]

RECURSIVE normalize(_, _)
normalize(m, s) ==
    IF m = 0 THEN [m |-> 0, s |-> 0]
    ELSE IF s > 0 /\ m % 10 = 0 THEN normalize(m \div 10, s - 1)
    ELSE IF s < 0 THEN normalize(m * 10, s + 1)
    ELSE [m |-> m, s |-> s]

Decimal(neg, m, s) ==
    LET n == normalize(m, s)
    IN  [kind |-> "num", neg |-> neg, m |-> n.m, s |-> n.s]

isNaN(x) == x.kind = "nan"

\* x > 0
isPositive(x) == x.kind # "nan" /\ ~x.neg /\ (x.kind = "inf" \/ x.m > 0)

\* x >= 0 (negative zero included)
isNonNegative(x) == x.kind # "nan" /\ (~x.neg \/ (x.kind = "num" /\ x.m = 0))

isInteger(x) == x.kind = "num" /\ x.s = 0

T_Infinity == <<"I","n","f","i","n","i","t","y">>

\* an optional sign and decimal digits, as a number; 0 when no digit follows
signedDigits(c) ==
    LET d == digitPrefix(IF c # << >> /\ Head(c) \in {"+", "-"} THEN Tail(c) ELSE c)
    IN  IF c # << >> /\ Head(c) = "-" THEN 0 - digitsToNat(d) ELSE digitsToNat(d)

\* the exponent of a decimal literal whose digits are followed by b
exponentOf(b) ==
    IF b # << >> /\ Head(b) \in {"e", "E"} THEN signedDigits(Tail(b)) ELSE 0

\* the decimal literal at the start of u, whose integer digits are ip
decimalLiteral(neg, ip, u) ==
    LET a   == SubSeq(u, Len(ip) + 1, Len(u))
        dot == a # << >> /\ Head(a) = "."
        fp  == IF dot THEN digitPrefix(Tail(a)) ELSE << >>
    IN  IF ip = << >> /\ fp = << >> THEN NaN
        ELSE Decimal(neg, digitsToNat(ip \o fp),
                     Len(fp) - exponentOf(SubSeq(a, IF dot THEN Len(fp) + 2 ELSE 1,
                                                 Len(a))))

unsignedLiteral(neg, u) ==
    IF startsWith(u, T_Infinity) THEN Infinity(neg)
    ELSE decimalLiteral(neg, digitPrefix(u), u)

signedLiteral(t) ==
    unsignedLiteral(t # << >> /\ Head(t) = "-",
                    IF t # << >> /\ Head(t) \in {"+", "-"} THEN Tail(t) ELSE t)

\* the global parseFloat: leading white space, sign, then the longest prefix
\* that is a decimal literal (digits, fraction, exponent) or Infinity
parseFloat(str) == signedLiteral(trimStart(str))

\* the global parseInt with radix 10: leading white space, sign, digits
parseInt(str) ==
    LET t     == trimStart(str)
        signed == t # << >> /\ Head(t) \in {"+", "-"}
        neg   == t # << >> /\ Head(t) = "-"
        u     == IF signed THEN Tail(t) ELSE t
        ip    == digitPrefix(u)
    IN  IF ip = << >> THEN NaN ELSE Decimal(neg, digitsToNat(ip), 0)

RECURSIVE natToDigits(_)
natToDigits(n) ==
    IF n < 10 THEN << Digits[n + 1] >>
    ELSE natToDigits(n \div 10) \o << Digits[(n % 10) + 1] >>

RECURSIVE zeros(_)
zeros(n) == IF n <= 0 THEN << >> ELSE << "0" >> \o zeros(n - 1)

\* Number.prototype.toString for the numbers above (no exponent notation)
numberToString(x) ==
    LET sign == IF x.neg /\ (x.kind = "inf" \/ x.m > 0) THEN << "-" >> ELSE << >>
        d    == natToDigits(x.m)
        pad  == IF Len(d) <= x.s THEN zeros(x.s + 1 - Len(d)) \o d ELSE d
    IN  IF x.kind = "nan" THEN <<"N","a","N">>
        ELSE IF x.kind = "inf" THEN sign \o T_Infinity
        ELSE IF x.s = 0 THEN sign \o d
        ELSE sign \o SubSeq(pad, 1, Len(pad) - x.s) \o << "." >>
                  \o SubSeq(pad, Len(pad) - x.s + 1, Len(pad))

(***************************************************************************)
(* Texts used by the flow definition and by the incoming messages          *)
(***************************************************************************)
T_stop == <<"s","t","o","p">>

T_skip == <<"s","k","i","p">>

T_list == <<"l","i","s","t">>

T_add == <<"a","d","d">>

T_name == <<"n","a","m","e">>

T_price == <<"p","r","i","c","e">>

T_stock == <<"s","t","o","c","k">>

T_description == <<"d","e","s","c","r","i","p","t","i","o","n">>

\* MessageInput values (tests/prod/prod.test.ts textMsg, imageMsg)
textMsg(content) == [type |-> "text", content |-> content, mimeType |-> Absent]

imageMsg(url, mimeType) ==
    [type |-> "image", content |-> url, mimeType |-> Some(mimeType)]

(***************************************************************************)
(* Bounds of the model                                                     *)
(***************************************************************************)
\* the clock runs from 0 to MaxTime
MaxTime == 3

\* process calls that may be awaiting the catalog client at the same time
MaxCalls == 2

\* createProduct requests counted for one staged record
MaxCreates == 3

\* the session timeout given to createInMemoryManager, in clock ticks
timeoutMs == 1

\* the conversations, in a fixed order
ChatSeq == <<"a", "b">>

ChatIds == {ChatSeq[i] : i \in 1..Len(ChatSeq)}

\* identities of the Session objects alive at one time: one per stored
\* session, one per call that still holds a reference, one being constructed
ObjIds == 1..(Len(ChatSeq) + MaxCalls + 1)

\* values randomUUID may return
UUIDs == {"u1", "u2"}

(***************************************************************************)
(* The flow definition and the message table                               *)
(***************************************************************************)
testFlow ==
    [id |-> "test",
     initialStep |-> "awaiting_trigger",
     steps |->
       [awaiting_trigger |->
          [type |-> "trigger",
           onMatch |-> [nextStep |-> "awaiting_intent",
                        messageKey |-> Some("welcome")],
           onNoMatch |-> [handled |-> FALSE],
           messageKey |-> Absent],
        awaiting_intent |->
          [type |-> "choice",
           messageKey |-> Some("intent_prompt"),
           options |-> << [id |-> T_list, label |-> "List Products",
                           aliases |-> << <<"1">>, T_list >>],
                          [id |-> T_add, label |-> "Add New Product",
                           aliases |-> << <<"2">>, T_add >>] >>,
           transitions |->
               (T_list :> [nextStep |-> "list_products", messageKey |-> Absent])
            @@ (T_add :> [nextStep |-> "add_product", messageKey |-> Absent]),
           onInvalid |-> [messageKey |-> "invalid_choice",
                          nextStep |-> "awaiting_intent"]],
        list_products |->
          [type |-> "action", action |-> "listProducts",
           nextStep |-> "awaiting_intent", messageKey |-> Absent],
        add_product |->
          [type |-> "input", messageKey |-> Some("add_product_prompt"),
           contextKey |-> "productInput",
           nextStep |-> "awaiting_product_image"],
        awaiting_product_image |->
          [type |-> "imageInput",
           messageKey |-> Some("add_product_image_prompt"),
           contextKey |-> "productImage",
           nextStep |-> "process_add_product",
           optional |-> TRUE, skipKeyword |-> Some(T_skip)],
        process_add_product |->
          [type |-> "action", action |-> "addProduct",
           nextStep |-> "awaiting_intent", messageKey |-> Absent]]]

VARIABLE
    flow          \* FlowControllerDeps.flow: the flow definition in use

StepIds == DOMAIN flow.steps

\* flow.steps[id], undefined for an id that names no step
stepOf(id) == IF id \in StepIds THEN Some(flow.steps[id]) ELSE Absent

messages ==
    {"welcome", "intent_prompt", "invalid_choice", "add_product_prompt",
     "add_product_received", "add_product_missing_fields",
     "add_product_current_values", "add_product_cancelled",
     "add_product_image_prompt", "add_product_image_received",
     "add_product_image_skipped", "add_product_image_invalid",
     "validation_error_name", "validation_error_price",
     "validation_error_stock"}

\* keys of session.context
ContextKeys == {"productData", "productImage", "productInput", "photo"}

(***************************************************************************)
(* A display string is a tuple of parts; joining strings with a blank line *)
(* is the concatenation of their parts, the empty string has no part.      *)
(***************************************************************************)
Part(key, arg) == [key |-> key, arg |-> arg]

Lit(str) == << Part(str, << >>) >>

getMessage(key) ==
    IF key \in messages THEN Lit(key) ELSE << Part("[Missing message]", << key >>) >>

(***************************************************************************)
(* State                                                                   *)
(***************************************************************************)
VARIABLES
    now,          \* Date.now()
    sessions,     \* memory.ts: the Map, chatId -> reference to a Session object
    heap,         \* the Session objects, by reference
    calls,        \* process calls suspended in an await of the catalog client
    triggerCode,  \* FlowControllerDeps.triggerCode
    wooCommerce,  \* FlowControllerDeps.wooCommerce is given
    ev,           \* the operation that has just run
    creates       \* chatId -> createProduct calls for the staged record

vars == << now, sessions, heap, calls, triggerCode, wooCommerce, ev, creates, flow >>

\* the store as one value
store == [sessions |-> sessions, heap |-> heap]

deref(st, ref) == Val(st.heap[ref])

(***************************************************************************)
(* memory.ts                                                               *)
(***************************************************************************)
\* a faulty variant: no session ever counts as expired
isExpired_never(session, t) == FALSE

isExpired(session, t) == t > session.expiresAt

\* a faulty variant: an expired session is not returned but stays stored
get_notEvicting(st, chatId, t) ==
    LET r == st.sessions[chatId]
    IN  IF ~IsSome(r) THEN [st |-> st, ret |-> Absent]
        ELSE IF isExpired(deref(st, Val(r)), t) THEN [st |-> st, ret |-> Absent]
        ELSE [st |-> st, ret |-> r]

get(st, chatId, t) ==
    LET r == st.sessions[chatId]
    IN  IF ~IsSome(r) THEN [st |-> st, ret |-> Absent]
        ELSE IF isExpired(deref(st, Val(r)), t)
        THEN [st |-> [st EXCEPT !.sessions[chatId] = Absent], ret |-> Absent]
        ELSE [st |-> st, ret |-> r]

\* a faulty variant: expiresAt is not refreshed
set_keepingExpiry(st, chatId, ref, session, t) ==
    [sessions |-> [st.sessions EXCEPT ![chatId] = Some(ref)],
     heap |-> [st.heap EXCEPT ![ref] = Some([session EXCEPT !.updatedAt = t])]]

\* a faulty variant: the object is put under every id that has an entry
set_shared(st, chatId, ref, session, t) ==
    [sessions |-> [c \in ChatIds |->
                     IF c = chatId \/ IsSome(st.sessions[c])
                     THEN Some(ref) ELSE st.sessions[c]],
     heap |-> [st.heap EXCEPT ![ref] =
                 Some([session EXCEPT !.updatedAt = t,
                                      !.expiresAt = t + timeoutMs])]]

\* session is the content of the object ref as the caller has left it
set(st, chatId, ref, session, t) ==
    [sessions |-> [st.sessions EXCEPT ![chatId] = Some(ref)],
     heap |-> [st.heap EXCEPT ![ref] =
                 Some([session EXCEPT !.updatedAt = t,
                                      !.expiresAt = t + timeoutMs])]]

\* a faulty variant: the entry is not removed
deleteSession_not(st, chatId) == st

deleteSession(st, chatId) == [st EXCEPT !.sessions[chatId] = Absent]

\* a faulty variant: the sweep also removes the entries that expire just now
cleanup_atExpiry(st, t) ==
    [st EXCEPT !.sessions =
        [c \in ChatIds |->
            IF IsSome(st.sessions[c]) /\ t >= deref(st, Val(st.sessions[c])).expiresAt
            THEN Absent ELSE st.sessions[c]]]

cleanup(st, t) ==
    [st EXCEPT !.sessions =
        [c \in ChatIds |->
            IF IsSome(st.sessions[c]) /\ t > deref(st, Val(st.sessions[c])).expiresAt
            THEN Absent ELSE st.sessions[c]]]

emptyContext == [k \in ContextKeys |-> Absent]

createSession(chatId, initialStep, t) ==
    [chatId |-> chatId, currentStep |-> initialStep, context |-> emptyContext,
     createdAt |-> t, updatedAt |-> t, expiresAt |-> t + timeoutMs]

\* a reference no object has: the object a constructor call returns
newRef(st) == CHOOSE r \in ObjIds :
                 /\ ~IsSome(st.heap[r])
                 /\ \A q \in ObjIds : ~IsSome(st.heap[q]) => r <= q

\* an assignment to a field of the object ref, without memory.set
assign(st, ref, session) == [st EXCEPT !.heap[ref] = Some(session)]

(***************************************************************************)
(* flow-controller.ts: results and helpers                                 *)
(***************************************************************************)
\* a FlowResult; an absent field is undefined
FlowResult(handled, preMessage, response, buttons) ==
    [handled |-> handled, preMessage |-> preMessage,
     response |-> response, buttons |-> buttons]

\* what a step function leaves behind: the store, and either the FlowResult
\* it returned or the await it is suspended in
Return(st, result) == [st |-> st, result |-> Some(result), pending |-> Absent]

Suspend(st, call) == [st |-> st, result |-> Absent, pending |-> Some(call)]

\* JavaScript truthiness of an optional string
truthy(o) == IsSome(o) /\ Val(o) # << >>

\* a faulty variant: the content is compared without being trimmed
isTriggerMatch_untrimmed(message) ==
    IF message.type # "text" THEN FALSE
    ELSE IF ~truthy(triggerCode) THEN TRUE
    ELSE toLowerCase(message.content) = toLowerCase(Val(triggerCode))

\* a faulty variant: without a trigger code a message of any kind matches
isTriggerMatch_anyKind(message) ==
    IF ~truthy(triggerCode) THEN TRUE
    ELSE IF message.type # "text" THEN FALSE
    ELSE toLowerCase(trim(message.content)) = toLowerCase(Val(triggerCode))

isTriggerMatch(message) ==
    IF message.type # "text" THEN FALSE
    ELSE IF ~truthy(triggerCode) THEN TRUE
    ELSE toLowerCase(trim(message.content)) = toLowerCase(Val(triggerCode))

errorCodeToMessageKey ==
    [network_error |-> "error_network", unauthorized |-> "error_unauthorized",
     forbidden |-> "error_forbidden", not_found |-> "error_not_found",
     duplicate_sku |-> "error_duplicate_sku", invalid_data |-> "error_invalid_data",
     image_upload_error |-> "error_image_upload", server_error |-> "error_server",
     unknown |-> "error_unknown"]

\* a faulty variant: every error is reported as unknown
getErrorMessage_unknown(err) == getMessage("error_unknown")

\* err is the errorCode of a WooCommerceError, or "other" for any other throw
getErrorMessage(err) ==
    IF err \in DOMAIN errorCodeToMessageKey
    THEN getMessage(errorCodeToMessageKey[err])
    ELSE getMessage("error_unknown")

buildButtonsFromChoice(step) ==
    [body |-> getMessage(Val(step.messageKey)),
     options |-> [i \in 1..Len(step.options) |->
                    [buttonId |-> step.options[i].id,
                     buttonText |-> step.options[i].label]],
     header |-> Absent]

withHeader(buttons, header) == [buttons EXCEPT !.header = Some(header)]

isChoiceStep(step) == IsSome(step) /\ Val(step).type = "choice"

isInputStep(step) == IsSome(step) /\ Val(step).type = "input"

isImageInputStep(step) == IsSome(step) /\ Val(step).type = "imageInput"

isActionStep(step) == IsSome(step) /\ Val(step).type = "action"

\* 'messageKey' in step && step.messageKey
hasMessageKey(step) == IsSome(step) /\ IsSome(Val(step).messageKey)

optionMatches(option, normalizedInput) ==
    \/ option.id = normalizedInput
    \/ \E j \in 1..Len(option.aliases) :
           toLowerCase(option.aliases[j]) = normalizedInput

matchChoiceOption(step, input) ==
    LET normalizedInput == toLowerCase(trim(input))
        hits == {i \in 1..Len(step.options) :
                    optionMatches(step.options[i], normalizedInput)}
    IN  IF hits = {} THEN Absent
        ELSE Some(step.options[CHOOSE i \in hits : \A j \in hits : i <= j].id)

(***************************************************************************)
(* flow-controller.ts: the product record                                  *)
(***************************************************************************)
FieldKeys == {T_name, T_price, T_stock, T_description}

noFields == [k \in FieldKeys |-> Absent]

emptyProduct ==
    [name |-> Absent, price |-> Absent, stock |-> Absent,
     description |-> Absent, sku |-> Absent]

\* one pass of the loop of parseInputFields; keys that validateAndMergeProduct
\* never reads are not kept
parseLine(fields, line) ==
    LET colonIndex == indexOf(line, ":")
        key   == toLowerCase(trim(SubSeq(line, 1, colonIndex - 1)))
        value == trim(SubSeq(line, colonIndex + 1, Len(line)))
    IN  IF colonIndex = 0 THEN fields
        ELSE IF value # << >> /\ key \in FieldKeys
        THEN [fields EXCEPT ![key] = Some(value)]
        ELSE fields

RECURSIVE parseLines(_, _)
parseLines(fields, lines) ==
    IF lines = << >> THEN fields
    ELSE parseLines(parseLine(fields, Head(lines)), Tail(lines))

parseInputFields(input) == parseLines(noFields, split(input, "\n"))

\* a faulty variant: any number is accepted as a price
priceAccepted_anyNumber(value) == ~isNaN(parseFloat(value))

priceAccepted(value) ==
    LET priceNum == parseFloat(value)
    IN  ~isNaN(priceNum) /\ isPositive(priceNum)

\* a faulty variant: whatever is supplied is taken as the stock
stockAccepted_anything(value) == TRUE

stockAccepted(value) ==
    LET stockNum == parseInt(value)
    IN  ~isNaN(stockNum) /\ isNonNegative(stockNum) /\ isInteger(stockNum)

\* a faulty variant: an invalid price or stock discards the value held
validateAndMergeProduct_dropping(existingData, newFields) ==
    LET n  == newFields[T_name]
        p  == newFields[T_price]
        k  == newFields[T_stock]
        d  == newFields[T_description]
        p1 == IF IsSome(n) /\ Len(Val(n)) > 0
              THEN [existingData EXCEPT !.name = n] ELSE existingData
        e1 == IF IsSome(n) /\ ~(Len(Val(n)) > 0)
              THEN getMessage("validation_error_name") ELSE << >>
        p2 == IF IsSome(p)
              THEN [p1 EXCEPT !.price = IF priceAccepted(Val(p))
                                        THEN Some(parseFloat(Val(p))) ELSE Absent]
              ELSE p1
        e2 == IF IsSome(p) /\ ~priceAccepted(Val(p))
              THEN getMessage("validation_error_price") ELSE << >>
        p3 == IF IsSome(k)
              THEN [p2 EXCEPT !.stock = IF stockAccepted(Val(k))
                                        THEN Some(parseInt(Val(k))) ELSE Absent]
              ELSE p2
        e3 == IF IsSome(k) /\ ~stockAccepted(Val(k))
              THEN getMessage("validation_error_stock") ELSE << >>
        p4 == IF IsSome(d) THEN [p3 EXCEPT !.description = d] ELSE p3
    IN  [product |-> p4, errors |-> e1 \o e2 \o e3]

validateAndMergeProduct(existingData, newFields) ==
    LET n  == newFields[T_name]
        p  == newFields[T_price]
        k  == newFields[T_stock]
        d  == newFields[T_description]
        p1 == IF IsSome(n) /\ Len(Val(n)) > 0
              THEN [existingData EXCEPT !.name = n] ELSE existingData
        e1 == IF IsSome(n) /\ ~(Len(Val(n)) > 0)
              THEN getMessage("validation_error_name") ELSE << >>
        p2 == IF IsSome(p) /\ priceAccepted(Val(p))
              THEN [p1 EXCEPT !.price = Some(parseFloat(Val(p)))] ELSE p1
        e2 == IF IsSome(p) /\ ~priceAccepted(Val(p))
              THEN getMessage("validation_error_price") ELSE << >>
        p3 == IF IsSome(k) /\ stockAccepted(Val(k))
              THEN [p2 EXCEPT !.stock = Some(parseInt(Val(k)))] ELSE p2
        e3 == IF IsSome(k) /\ ~stockAccepted(Val(k))
              THEN getMessage("validation_error_stock") ELSE << >>
        p4 == IF IsSome(d) THEN [p3 EXCEPT !.description = d] ELSE p3
    IN  [product |-> p4, errors |-> e1 \o e2 \o e3]

\* a faulty variant: no record counts as complete
isProductComplete_never(product) == FALSE

\* a faulty variant: a record with a name counts as complete
isProductComplete_nameOnly(product) == IsSome(product.name)

isProductComplete(product) ==
    IsSome(product.name) /\ IsSome(product.price) /\ IsSome(product.stock)

buildMissingFieldsPrompt(product, errors) ==
    LET currentValues ==
               (IF truthy(product.name) THEN << "Name" >> ELSE << >>)
            \o (IF IsSome(product.price) THEN << "Price" >> ELSE << >>)
            \o (IF IsSome(product.stock) THEN << "Stock" >> ELSE << >>)
            \o (IF truthy(product.description) THEN << "Description" >> ELSE << >>)
        missingFields ==
               (IF ~truthy(product.name) THEN << "Name" >> ELSE << >>)
            \o (IF ~IsSome(product.price) THEN << "Price" >> ELSE << >>)
            \o (IF ~IsSome(product.stock) THEN << "Stock" >> ELSE << >>)
    IN     (IF Len(errors) > 0
            THEN << Part("errors", [i \in 1..Len(errors) |-> errors[i].key]) >>
            ELSE << >>)
        \o (IF Len(currentValues) > 0
            THEN << Part("add_product_current_values", currentValues) >> ELSE << >>)
        \o (IF Len(missingFields) > 0
            THEN << Part("add_product_missing_fields", missingFields) >> ELSE << >>)

(***************************************************************************)
(* flow-controller.ts: action steps.  An action that reaches the catalog   *)
(* client suspends the process call until the client's promise settles.    *)
(***************************************************************************)
\* the synchronous part of an execute* function: its result string, or the
\* request it awaits; session is the object as it has left it
Done(session, actionResult) ==
    [await |-> FALSE, session |-> session, actionResult |-> actionResult,
     io |-> "none", req |-> Absent]

Await(session, io, req) ==
    [await |-> TRUE, session |-> session, actionResult |-> << >>,
     io |-> io, req |-> req]

executeListProducts(session) ==
    IF ~wooCommerce THEN Done(session, Lit("[WooCommerce not configured]"))
    ELSE Await(session, "getProducts", Absent)

\* a faulty variant: the request never carries an image
createInput_noImage(productData, productImage) ==
    [name |-> Val(productData.name),
     regular_price |-> numberToString(Val(productData.price)),
     stock_quantity |-> Val(productData.stock),
     description |-> productData.description,
     sku |-> productData.sku,
     images |-> << >>]

\* the createInput of executeAddProduct
createInput(productData, productImage) ==
    [name |-> Val(productData.name),
     regular_price |-> numberToString(Val(productData.price)),
     stock_quantity |-> Val(productData.stock),
     description |-> productData.description,
     sku |-> productData.sku,
     images |-> IF IsSome(productImage) /\ Val(productImage).url # << >>
                THEN << [src |-> Val(productImage).url,
                         name |-> Val(productData.name)] >>
                ELSE << >>]

executeAddProduct(session, uuid) ==
    LET productData  == session.context["productData"]
        productImage == session.context["productImage"]
        withSku      == [Val(productData) EXCEPT !.sku = Some(uuid)]
    IN  IF ~IsSome(productData) \/ ~isProductComplete(Val(productData))
        THEN Done(session, Lit("[Product data incomplete]"))
        ELSE IF ~wooCommerce
        THEN Done(session, Lit("[WooCommerce not configured]"))
        ELSE Await([session EXCEPT !.context["productData"] = Some(withSku)],
                   "createProduct",
                   Some(createInput(withSku, productImage)))

\* how a promise of the catalog client settles
IoResults ==
       {[ok |-> TRUE, count |-> n, code |-> "none"] : n \in 0..1}
    \cup {[ok |-> FALSE, count |-> 0, code |-> c] :
             c \in DOMAIN errorCodeToMessageKey \cup {"other"}}

\* executeListProducts after the await of getProducts
listProductsSettled(session, io) ==
    IF io.ok
    THEN IF io.count = 0
         THEN Done(session, Lit("No products found in your store."))
         ELSE Done(session, << Part("products", << >>) >>)
    ELSE Done(session, getMessage("list_products_error") \o getErrorMessage(io.code))

\* a faulty variant: the image outlives the product made with it
addProductSettled_keepingImage(session, req, io) ==
    IF io.ok
    THEN Done([session EXCEPT !.context["productData"] = Absent],
              << Part("add_product_received", req.name) >>)
    ELSE Done(session, getMessage("add_product_error") \o getErrorMessage(io.code))

\* executeAddProduct after the await of createProduct; the created product
\* carries the name of the request
addProductSettled(session, req, io) ==
    IF io.ok
    THEN Done([session EXCEPT !.context["productData"] = Absent,
                              !.context["productImage"] = Absent],
              << Part("add_product_received", req.name) >>)
    ELSE Done(session, getMessage("add_product_error") \o getErrorMessage(io.code))

\* processImageInputStep, lines 678-687: the acknowledgement put before the
\* output of the action
withImageReceived(result) ==
    LET imageReceivedMsg == getMessage("add_product_image_received")
    IN  IF truthy(result.preMessage)
        THEN [result EXCEPT !.preMessage = Some(imageReceivedMsg \o Val(@))]
        ELSE IF truthy(result.response)
        THEN [result EXCEPT !.response = Some(imageReceivedMsg \o Val(@))]
        ELSE [result EXCEPT !.response = Some(imageReceivedMsg)]

\* a faulty variant: the session stays on the action step
completeActionStep_staying(st, chatId, ref, step, session, actionResult, ack, t) ==
    LET st1      == set(st, chatId, ref, session, t)
        nextStep == stepOf(step.nextStep)
        result   ==
            IF isChoiceStep(nextStep)
            THEN FlowResult(TRUE, Some(actionResult), Absent,
                            Some(buildButtonsFromChoice(Val(nextStep))))
            ELSE IF hasMessageKey(nextStep)
            THEN FlowResult(TRUE, Absent,
                    Some(actionResult \o getMessage(Val(Val(nextStep).messageKey))),
                    Absent)
            ELSE FlowResult(TRUE, Absent, Some(actionResult), Absent)
    IN  Return(st1, IF ack THEN withImageReceived(result) ELSE result)

\* a faulty variant: the result string is in preMessage whatever the next
\* step is
completeActionStep_preMessage(st, chatId, ref, step, session, actionResult, ack, t) ==
    LET st1      == set(st, chatId, ref,
                        [session EXCEPT !.currentStep = step.nextStep], t)
        nextStep == stepOf(step.nextStep)
        result   ==
            IF isChoiceStep(nextStep)
            THEN FlowResult(TRUE, Some(actionResult), Absent,
                            Some(buildButtonsFromChoice(Val(nextStep))))
            ELSE IF hasMessageKey(nextStep)
            THEN FlowResult(TRUE, Some(actionResult),
                    Some(getMessage(Val(Val(nextStep).messageKey))), Absent)
            ELSE FlowResult(TRUE, Some(actionResult), Absent, Absent)
    IN  Return(st1, IF ack THEN withImageReceived(result) ELSE result)

\* processActionStep from line 890 on, with the result string of the action
\* a faulty variant: an Action step that follows is passed over as if it
\* had run in the same call
completeActionStep_hopping(st, chatId, ref, step, session, actionResult, ack, t) ==
    LET st1      == set(st, chatId, ref,
                        [session EXCEPT !.currentStep =
                            IF isActionStep(stepOf(step.nextStep))
                            THEN Val(stepOf(step.nextStep)).nextStep
                            ELSE step.nextStep], t)
        nextStep == stepOf(step.nextStep)
        result   ==
            IF isChoiceStep(nextStep)
            THEN FlowResult(TRUE, Some(actionResult), Absent,
                            Some(buildButtonsFromChoice(Val(nextStep))))
            ELSE IF hasMessageKey(nextStep)
            THEN FlowResult(TRUE, Absent,
                    Some(actionResult \o getMessage(Val(Val(nextStep).messageKey))),
                    Absent)
            ELSE FlowResult(TRUE, Absent, Some(actionResult), Absent)
    IN  Return(st1, IF ack THEN withImageReceived(result) ELSE result)

completeActionStep(st, chatId, ref, step, session, actionResult, ack, t) ==
    LET st1      == set(st, chatId, ref,
                        [session EXCEPT !.currentStep = step.nextStep], t)
        nextStep == stepOf(step.nextStep)
        result   ==
            IF isChoiceStep(nextStep)
            THEN FlowResult(TRUE, Some(actionResult), Absent,
                            Some(buildButtonsFromChoice(Val(nextStep))))
            ELSE IF hasMessageKey(nextStep)
            THEN FlowResult(TRUE, Absent,
                    Some(actionResult \o getMessage(Val(Val(nextStep).messageKey))),
                    Absent)
            ELSE FlowResult(TRUE, Absent, Some(actionResult), Absent)
    IN  Return(st1, IF ack THEN withImageReceived(result) ELSE result)

\* ack: the caller is the image branch of processImageInputStep
processActionStep(st, chatId, ref, step, ack, t, uuid) ==
    LET session == deref(st, ref)
        started ==
            IF step.action = "listProducts" THEN executeListProducts(session)
            ELSE IF step.action = "addProduct" THEN executeAddProduct(session, uuid)
            ELSE Done(session, << Part("[Action]", << step.action >>) >>)
    IN  IF started.await
        THEN Suspend(assign(st, ref, started.session),
                     [chatId |-> chatId, ref |-> ref, step |-> step,
                      io |-> started.io, req |-> started.req, ack |-> ack])
        ELSE completeActionStep(st, chatId, ref, step, started.session,
                                started.actionResult, ack, t)

\* a suspended processActionStep resumes with the settled promise
resumeActionStep(st, call, io, t) ==
    LET session == deref(st, call.ref)
        settled ==
            IF call.io = "getProducts" THEN listProductsSettled(session, io)
            ELSE addProductSettled(session, Val(call.req), io)
    IN  completeActionStep(st, call.chatId, call.ref, call.step, settled.session,
                           settled.actionResult, call.ack, t)

(***************************************************************************)
(* flow-controller.ts: the step functions                                  *)
(***************************************************************************)
\* the response built from a transition's message and the next step's message
joinedResponse(messageKey, nextStep) ==
       (IF IsSome(messageKey) THEN getMessage(Val(messageKey)) ELSE << >>)
    \o (IF hasMessageKey(nextStep)
        THEN getMessage(Val(Val(nextStep).messageKey)) ELSE << >>)

\* a faulty variant: a message that does not match ends the session
processTriggerStep_dropping(st, chatId, message, step, t) ==
    IF ~isTriggerMatch(message)
    THEN Return(deleteSession(st, chatId),
                FlowResult(step.onNoMatch.handled, Absent, Absent, Absent))
    ELSE
      LET session  == createSession(chatId, step.onMatch.nextStep, t)
          st1      == set(st, chatId, newRef(st), session, t)
          nextStep == stepOf(step.onMatch.nextStep)
          welcomeMessage ==
              IF IsSome(step.onMatch.messageKey)
              THEN Some(getMessage(Val(step.onMatch.messageKey))) ELSE Absent
      IN  IF isChoiceStep(nextStep)
          THEN Return(st1, FlowResult(TRUE, Absent, Absent,
                  Some(IF truthy(welcomeMessage)
                       THEN withHeader(buildButtonsFromChoice(Val(nextStep)),
                                       Val(welcomeMessage))
                       ELSE buildButtonsFromChoice(Val(nextStep)))))
          ELSE Return(st1, FlowResult(TRUE, Absent,
                  Some((IF truthy(welcomeMessage) THEN Val(welcomeMessage) ELSE << >>)
                       \o joinedResponse(Absent, nextStep)),
                  Absent))

processTriggerStep(st, chatId, message, step, t) ==
    IF ~isTriggerMatch(message)
    THEN Return(st, FlowResult(step.onNoMatch.handled, Absent, Absent, Absent))
    ELSE
      LET session  == createSession(chatId, step.onMatch.nextStep, t)
          st1      == set(st, chatId, newRef(st), session, t)
          nextStep == stepOf(step.onMatch.nextStep)
          welcomeMessage ==
              IF IsSome(step.onMatch.messageKey)
              THEN Some(getMessage(Val(step.onMatch.messageKey))) ELSE Absent
      IN  IF isChoiceStep(nextStep)
          THEN Return(st1, FlowResult(TRUE, Absent, Absent,
                  Some(IF truthy(welcomeMessage)
                       THEN withHeader(buildButtonsFromChoice(Val(nextStep)),
                                       Val(welcomeMessage))
                       ELSE buildButtonsFromChoice(Val(nextStep)))))
          ELSE Return(st1, FlowResult(TRUE, Absent,
                  Some((IF truthy(welcomeMessage) THEN Val(welcomeMessage) ELSE << >>)
                       \o joinedResponse(Absent, nextStep)),
                  Absent))

\* a faulty variant: the onInvalid answer does not carry the onInvalid message
invalidChoice_silent(step) ==
    LET invalidStep == stepOf(step.onInvalid.nextStep)
    IN  IF isChoiceStep(invalidStep)
        THEN FlowResult(TRUE, Absent, Absent,
                        Some(buildButtonsFromChoice(Val(invalidStep))))
        ELSE FlowResult(TRUE, Absent, Absent, Absent)

\* the onInvalid answer of a choice step
invalidChoice(step) ==
    LET invalidStep == stepOf(step.onInvalid.nextStep)
    IN  IF isChoiceStep(invalidStep)
        THEN FlowResult(TRUE, Absent, Absent,
                Some(withHeader(buildButtonsFromChoice(Val(invalidStep)),
                                getMessage(step.onInvalid.messageKey))))
        ELSE FlowResult(TRUE, Absent, Some(getMessage(step.onInvalid.messageKey)),
                        Absent)

\* a faulty variant: an option without a transition is answered as an
\* input that matches no option
processChoiceStep_asNoMatch(st, chatId, message, ref, step, t, uuid) ==
    LET session == deref(st, ref)
        matchedOption == matchChoiceOption(step, message.content)
    IN  IF message.type # "text" THEN Return(st, invalidChoice(step))
        ELSE IF ~truthy(matchedOption)
        THEN Return(set(st, chatId, ref,
                        [session EXCEPT !.currentStep = step.onInvalid.nextStep], t),
                    invalidChoice(step))
        ELSE IF Val(matchedOption) \notin DOMAIN step.transitions
        THEN Return(set(st, chatId, ref,
                        [session EXCEPT !.currentStep = step.onInvalid.nextStep], t),
                    invalidChoice(step))
        ELSE
          LET transition == step.transitions[Val(matchedOption)]
              st1 == set(st, chatId, ref,
                         [session EXCEPT !.currentStep = transition.nextStep], t)
              nextStep == stepOf(transition.nextStep)
              text == joinedResponse(transition.messageKey, nextStep)
          IN  IF isActionStep(nextStep)
              THEN processActionStep(st1, chatId, ref, Val(nextStep), FALSE, t, uuid)
              ELSE IF isInputStep(nextStep)
              THEN Return(st1, FlowResult(TRUE, Absent, Some(text), Absent))
              ELSE IF isChoiceStep(nextStep)
              THEN Return(st1, FlowResult(TRUE, Absent, Absent,
                      Some(IF IsSome(transition.messageKey)
                           THEN withHeader(buildButtonsFromChoice(Val(nextStep)),
                                           getMessage(Val(transition.messageKey)))
                           ELSE buildButtonsFromChoice(Val(nextStep)))))
              ELSE Return(st1, FlowResult(TRUE, Absent,
                      IF Len(text) > 0 THEN Some(text) ELSE Absent, Absent))

processChoiceStep(st, chatId, message, ref, step, t, uuid) ==
    LET session == deref(st, ref)
        matchedOption == matchChoiceOption(step, message.content)
    IN  IF message.type # "text" THEN Return(st, invalidChoice(step))
        ELSE IF ~truthy(matchedOption)
        THEN Return(set(st, chatId, ref,
                        [session EXCEPT !.currentStep = step.onInvalid.nextStep], t),
                    invalidChoice(step))
        ELSE IF Val(matchedOption) \notin DOMAIN step.transitions
        THEN Return(st, FlowResult(TRUE, Absent,
                                   Some(getMessage(step.onInvalid.messageKey)), Absent))
        ELSE
          LET transition == step.transitions[Val(matchedOption)]
              st1 == set(st, chatId, ref,
                         [session EXCEPT !.currentStep = transition.nextStep], t)
              nextStep == stepOf(transition.nextStep)
              text == joinedResponse(transition.messageKey, nextStep)
          IN  IF isActionStep(nextStep)
              THEN processActionStep(st1, chatId, ref, Val(nextStep), FALSE, t, uuid)
              ELSE IF isInputStep(nextStep)
              THEN Return(st1, FlowResult(TRUE, Absent, Some(text), Absent))
              ELSE IF isChoiceStep(nextStep)
              THEN Return(st1, FlowResult(TRUE, Absent, Absent,
                      Some(IF IsSome(transition.messageKey)
                           THEN withHeader(buildButtonsFromChoice(Val(nextStep)),
                                           getMessage(Val(transition.messageKey)))
                           ELSE buildButtonsFromChoice(Val(nextStep)))))
              ELSE Return(st1, FlowResult(TRUE, Absent,
                      IF Len(text) > 0 THEN Some(text) ELSE Absent, Absent))

\* a faulty variant: the cancellation leaves the context as it is
cancel_keeping(st, chatId, ref, cleared, t) ==
    LET session == deref(st, ref)
        st1 == set(st, chatId, ref,
                   [session EXCEPT !.currentStep = "awaiting_intent"], t)
        intentStep == stepOf("awaiting_intent")
    IN  IF isChoiceStep(intentStep)
        THEN Return(st1, FlowResult(TRUE, Absent, Absent,
                Some(withHeader(buildButtonsFromChoice(Val(intentStep)),
                                getMessage("add_product_cancelled")))))
        ELSE Return(st1, FlowResult(TRUE, Absent,
                Some(getMessage("add_product_cancelled")), Absent))

\* the "stop" branch of processInputStep and of processImageInputStep;
\* cleared are the context keys the branch deletes
cancel(st, chatId, ref, cleared, t) ==
    LET session == deref(st, ref)
        st1 == set(st, chatId, ref,
                   [session EXCEPT
                      !.context = [k \in ContextKeys |->
                                     IF k \in cleared THEN Absent ELSE @[k]],
                      !.currentStep = "awaiting_intent"], t)
        intentStep == stepOf("awaiting_intent")
    IN  IF isChoiceStep(intentStep)
        THEN Return(st1, FlowResult(TRUE, Absent, Absent,
                Some(withHeader(buildButtonsFromChoice(Val(intentStep)),
                                getMessage("add_product_cancelled")))))
        ELSE Return(st1, FlowResult(TRUE, Absent,
                Some(getMessage("add_product_cancelled")), Absent))

\* processInputStep from line 586 on: the text is stored under contextKey
storeInput(st, chatId, message, ref, step, t, uuid) ==
    LET session == deref(st, ref)
        st1 == set(st, chatId, ref,
                   [session EXCEPT !.context[step.contextKey] = Some(message.content),
                                   !.currentStep = step.nextStep], t)
        nextStep == stepOf(step.nextStep)
    IN  IF isActionStep(nextStep)
        THEN processActionStep(st1, chatId, ref, Val(nextStep), FALSE, t, uuid)
        ELSE IF isChoiceStep(nextStep)
        THEN Return(st1, FlowResult(TRUE, Absent, Absent,
                                    Some(buildButtonsFromChoice(Val(nextStep)))))
        ELSE IF isInputStep(nextStep) \/ isImageInputStep(nextStep)
        THEN Return(st1, FlowResult(TRUE, Absent,
                        Some(getMessage(Val(Val(nextStep).messageKey))), Absent))
        ELSE Return(st1, FlowResult(TRUE, Absent, Absent, Absent))

processInputStep(st, chatId, message, ref, step, t, uuid) ==
    LET session == deref(st, ref)
        existingData == IF IsSome(session.context["productData"])
                        THEN Val(session.context["productData"]) ELSE emptyProduct
        merged  == validateAndMergeProduct(existingData,
                                           parseInputFields(message.content))
        staged  == [session EXCEPT !.context["productData"] = Some(merged.product)]
        st1     == set(st, chatId, ref, staged, t)
        st2     == set(st, chatId, ref,
                       [staged EXCEPT !.currentStep = step.nextStep], t)
        nextStep == stepOf(step.nextStep)
    IN  IF message.type # "text"
        THEN Return(st, FlowResult(TRUE, Absent,
                                   Some(getMessage(Val(step.messageKey))), Absent))
        ELSE IF toLowerCase(trim(message.content)) = T_stop
        THEN cancel(st, chatId, ref,
                    {"productData", "productImage", step.contextKey}, t)
        ELSE IF step.contextKey # "productInput"
        THEN storeInput(st, chatId, message, ref, step, t, uuid)
        ELSE IF ~isProductComplete(merged.product) \/ Len(merged.errors) > 0
        THEN Return(st1, FlowResult(TRUE, Absent,
                Some(buildMissingFieldsPrompt(merged.product, merged.errors)),
                Absent))
        ELSE IF isActionStep(nextStep)
        THEN processActionStep(st2, chatId, ref, Val(nextStep), FALSE, t, uuid)
        ELSE IF isImageInputStep(nextStep)
        THEN Return(st2, FlowResult(TRUE, Absent,
                        Some(getMessage(Val(Val(nextStep).messageKey))), Absent))
        ELSE storeInput(st2, chatId, message, ref, step, t, uuid)

\* a faulty variant: the skip keyword is taken on a step that is not optional
processImageInputStep_skipAlways(st, chatId, message, ref, step, t, uuid) ==
    LET session  == deref(st, ref)
        text     == toLowerCase(trim(message.content))
        nextStep == stepOf(step.nextStep)
        skipped  == set(st, chatId, ref,
                        [session EXCEPT !.currentStep = step.nextStep], t)
        withImage == set(st, chatId, ref,
                        [session EXCEPT
                           !.context[step.contextKey] =
                               Some([url |-> message.content,
                                     mimeType |-> message.mimeType]),
                           !.currentStep = step.nextStep], t)
    IN  IF message.type = "text"
        THEN IF text = T_stop
             THEN cancel(st, chatId, ref, {"productData", "productImage"}, t)
             ELSE IF truthy(step.skipKeyword)
                     /\ text = toLowerCase(Val(step.skipKeyword))
             THEN IF isActionStep(nextStep)
                  THEN processActionStep(skipped, chatId, ref, Val(nextStep),
                                         FALSE, t, uuid)
                  ELSE Return(skipped, FlowResult(TRUE, Absent,
                          Some(getMessage("add_product_image_skipped")), Absent))
             ELSE Return(st, FlowResult(TRUE, Absent,
                          Some(getMessage("add_product_image_invalid")), Absent))
        ELSE IF message.type = "image"
        THEN IF isActionStep(nextStep)
             THEN processActionStep(withImage, chatId, ref, Val(nextStep),
                                    TRUE, t, uuid)
             ELSE Return(withImage, FlowResult(TRUE, Absent,
                          Some(getMessage("add_product_image_received")), Absent))
        ELSE Return(st, FlowResult(TRUE, Absent,
                        Some(getMessage("add_product_image_invalid")), Absent))

processImageInputStep(st, chatId, message, ref, step, t, uuid) ==
    LET session  == deref(st, ref)
        text     == toLowerCase(trim(message.content))
        nextStep == stepOf(step.nextStep)
        skipped  == set(st, chatId, ref,
                        [session EXCEPT !.currentStep = step.nextStep], t)
        withImage == set(st, chatId, ref,
                        [session EXCEPT
                           !.context[step.contextKey] =
                               Some([url |-> message.content,
                                     mimeType |-> message.mimeType]),
                           !.currentStep = step.nextStep], t)
    IN  IF message.type = "text"
        THEN IF text = T_stop
             THEN cancel(st, chatId, ref, {"productData", "productImage"}, t)
             ELSE IF step.optional /\ truthy(step.skipKeyword)
                                   /\ text = toLowerCase(Val(step.skipKeyword))
             THEN IF isActionStep(nextStep)
                  THEN processActionStep(skipped, chatId, ref, Val(nextStep),
                                         FALSE, t, uuid)
                  ELSE Return(skipped, FlowResult(TRUE, Absent,
                          Some(getMessage("add_product_image_skipped")), Absent))
             ELSE Return(st, FlowResult(TRUE, Absent,
                          Some(getMessage("add_product_image_invalid")), Absent))
        ELSE IF message.type = "image"
        THEN IF isActionStep(nextStep)
             THEN processActionStep(withImage, chatId, ref, Val(nextStep),
                                    TRUE, t, uuid)
             ELSE Return(withImage, FlowResult(TRUE, Absent,
                          Some(getMessage("add_product_image_received")), Absent))
        ELSE Return(st, FlowResult(TRUE, Absent,
                        Some(getMessage("add_product_image_invalid")), Absent))

\* process up to its return or to the first await of the catalog client
process(st, chatId, message, t, uuid) ==
    LET got  == get(st, chatId, t)
        st0  == got.st
        triggerStep == stepOf(flow.initialStep)
    IN  IF ~IsSome(got.ret)
        THEN IF ~(IsSome(triggerStep) /\ Val(triggerStep).type = "trigger")
             THEN Return(st0, FlowResult(FALSE, Absent, Absent, Absent))
             ELSE processTriggerStep(st0, chatId, message, Val(triggerStep), t)
        ELSE
          LET ref         == Val(got.ret)
              currentStep == stepOf(deref(st0, ref).currentStep)
              step        == Val(currentStep)
          IN  IF ~IsSome(currentStep)
              THEN Return(deleteSession(st0, chatId),
                          FlowResult(FALSE, Absent, Absent, Absent))
              ELSE IF step.type = "trigger"
              THEN processTriggerStep(st0, chatId, message, step, t)
              ELSE IF step.type = "choice"
              THEN processChoiceStep(st0, chatId, message, ref, step, t, uuid)
              ELSE IF step.type = "input"
              THEN processInputStep(st0, chatId, message, ref, step, t, uuid)
              ELSE IF step.type = "imageInput"
              THEN processImageInputStep(st0, chatId, message, ref, step, t, uuid)
              ELSE IF step.type = "action"
              THEN processActionStep(st0, chatId, ref, step, FALSE, t, uuid)
              ELSE Return(st0, FlowResult(FALSE, Absent, Absent, Absent))


(***************************************************************************)
(* Incoming messages                                                       *)
(***************************************************************************)
M_go == textMsg(<<"g","o">>)

M_GO == textMsg(<<" ","G","O","\n">>)

M_hi == textMsg(<<"h","i">>)

M_stop == textMsg(<<"s","t","o","p">>)

M_Stop == textMsg(<<" ","S","t","o","p"," ">>)

M_skip == textMsg(<<"S","K","I","P">>)

M_list == textMsg(<<"l","i","s","t">>)

M_add == textMsg(<<" ","A","d","d">>)

M_2 == textMsg(<<"2">>)

M_nameW == textMsg(<<"N","a","m","e",":"," ","W">>)

M_nameG == textMsg(<<"n","a","m","e",":","G">>)

M_price == textMsg(<<"P","r","i","c","e",":"," ","9",".","9","9">>)

M_priceBad == textMsg(<<"p","r","i","c","e",":"," ","a","b","c">>)

M_stock == textMsg(<<"S","t","o","c","k",":"," ","3">>)

M_stockBad == textMsg(<<"s","t","o","c","k",":"," ","x">>)

M_all == textMsg(<<"N","a","m","e",":"," ","W","\n","P","r","i","c","e",":"," ","9",".","9","9","\n","S","t","o","c","k",":"," ","3">>)

M_priceBadStock == textMsg(<<"p","r","i","c","e",":"," ","a","b","c","\n","s","t","o","c","k",":"," ","3">>)

M_desc == textMsg(<<"d","e","s","c","r","i","p","t","i","o","n",":"," ","d">>)

M_image == imageMsg(<<"u">>, "image/jpeg")

M_priceNegStock == textMsg(<<"P","r","i","c","e",":","-","5","\n","S","t","o","c","k",":"," ","0">>)

\* every message above
AllMessages ==
    {M_go, M_GO, M_hi, M_stop, M_Stop, M_skip, M_list, M_add, M_2,
     M_nameW, M_nameG, M_price, M_priceBad, M_stock, M_stockBad, M_all,
     M_priceBadStock, M_priceNegStock, M_desc, M_image}

\* the messages sent by the user of the specification Spec
Messages ==
    {M_GO, M_hi, M_Stop, M_skip, M_list, M_add, M_image,
     M_all, M_nameG, M_price, M_priceBadStock}

\* the messages sent by the users of the specification ConcurrentSpec
CoreMessages == {M_GO, M_hi, M_Stop, M_skip, M_list, M_add, M_image, M_all}

\* A Choice step as a flow definition may hold it: the option ids are any
\* strings, here one with an upper-case letter and no alias.
T_List == <<"L","i","s","t">>

mixedCaseChoice ==
    [type |-> "choice",
     messageKey |-> Some("intent_prompt"),
     options |-> << [id |-> T_List, label |-> "List Products", aliases |-> << >>],
                    [id |-> T_add, label |-> "Add New Product",
                     aliases |-> << <<"2">>, T_add >>] >>,
     transitions |->
         (T_List :> [nextStep |-> "list_products", messageKey |-> Absent])
      @@ (T_add :> [nextStep |-> "add_product", messageKey |-> Absent]),
     onInvalid |-> [messageKey |-> "invalid_choice",
                    nextStep |-> "awaiting_intent"]]

\* the Choice steps matchChoiceOption is applied to
ChoiceSteps == {testFlow.steps["awaiting_intent"], mixedCaseChoice}

\* Action steps a flow may hold: the listProducts action or an action the
\* controller does not know, followed by any step of the flow
ActionSteps ==
    {[type |-> "action", action |-> a, nextStep |-> n, messageKey |-> Absent] :
        a \in {"listProducts", "exportProducts"}, n \in DOMAIN testFlow.steps}

\* ImageInput steps a flow may hold in the place of awaiting_product_image:
\* optional or not, with or without a skip keyword
ImageInputSteps ==
    {[testFlow.steps["awaiting_product_image"] EXCEPT !.optional = o, !.skipKeyword = k] :
        o \in BOOLEAN, k \in {Absent, Some(T_skip)}}

(***************************************************************************)
(* webhook/types.ts and webhook/handler.ts                                 *)
(***************************************************************************)
\* the message types of a pressed button; the text of such a payload is the
\* id of the button, or its text where the id is missing
ButtonReplies ==
    {"buttonsResponseMessage", "interactiveButtonsResponse",
     "templateButtonsReplyMessage"}

\* the fields of a webhook payload the handler reads
payloadOf(typeWebhook, typeMessage, text, downloadUrl) ==
    [typeWebhook |-> typeWebhook, chatId |-> "a", typeMessage |-> typeMessage,
     text |-> text, downloadUrl |-> downloadUrl, mimeType |-> "image/jpeg"]

\* a faulty variant: whatever carries a download URL is taken for an image
extractMessageContent_anyMedia(payload) ==
    IF payload.typeMessage \in {"textMessage"} \cup ButtonReplies
    THEN IF payload.text = << >> THEN Absent ELSE Some(textMsg(payload.text))
    ELSE IF payload.downloadUrl = << >> THEN Absent
         ELSE Some(imageMsg(payload.downloadUrl, payload.mimeType))

\* the message of the payload, or null for a type that is not supported and
\* for a message without content
extractMessageContent(payload) ==
    IF payload.typeMessage \in {"textMessage"} \cup ButtonReplies
    THEN IF payload.text = << >> THEN Absent ELSE Some(textMsg(payload.text))
    ELSE IF payload.typeMessage = "imageMessage"
    THEN IF payload.downloadUrl = << >> THEN Absent
         ELSE Some(imageMsg(payload.downloadUrl, payload.mimeType))
    ELSE Absent

\* a faulty variant: the response is sent as well as the buttons
sends_both(chatId, result) ==
       (IF truthy(result.preMessage)
        THEN << [call |-> "sendMessage", chatId |-> chatId, of |-> "preMessage",
                 content |-> Val(result.preMessage)] >>
        ELSE << >>)
    \o (IF IsSome(result.buttons)
        THEN << [call |-> "sendButtons", chatId |-> chatId, of |-> "buttons",
                 content |-> Val(result.buttons)] >>
        ELSE << >>)
    \o (IF truthy(result.response)
        THEN << [call |-> "sendMessage", chatId |-> chatId, of |-> "response",
                 content |-> Val(result.response)] >>
        ELSE << >>)

\* the calls of the sender the handler makes for a handled result, in
\* their order; of names the field of the result a call sends
sends(chatId, result) ==
       (IF truthy(result.preMessage)
        THEN << [call |-> "sendMessage", chatId |-> chatId, of |-> "preMessage",
                 content |-> Val(result.preMessage)] >>
        ELSE << >>)
    \o (IF IsSome(result.buttons)
        THEN << [call |-> "sendButtons", chatId |-> chatId, of |-> "buttons",
                 content |-> Val(result.buttons)] >>
        ELSE IF truthy(result.response)
        THEN << [call |-> "sendMessage", chatId |-> chatId, of |-> "response",
                 content |-> Val(result.response)] >>
        ELSE << >>)

\* the calls made when the call number fail rejects (0: none does): the
\* rejection leaves handle, the later calls are not made
attempted(outbound, fail) ==
    IF fail \in 1..Len(outbound) THEN SubSeq(outbound, 1, fail) ELSE outbound

\* handle returns without calling process
ignored(st, action) ==
    [st |-> st, processed |-> FALSE, result |-> Absent, sent |-> << >>,
     threw |-> FALSE, handled |-> FALSE, action |-> action]

\* handle from line 150 on; out is what process has returned
answered(chatId, out, fail) ==
    IF ~Val(out.result).handled
    THEN [st |-> out.st, processed |-> TRUE, result |-> out.result,
          sent |-> << >>, threw |-> FALSE, handled |-> FALSE,
          action |-> "flow_processed"]
    ELSE [st |-> out.st, processed |-> TRUE, result |-> out.result,
          sent |-> attempted(sends(chatId, Val(out.result)), fail),
          threw |-> fail \in 1..Len(sends(chatId, Val(out.result))),
          handled |-> fail \notin 1..Len(sends(chatId, Val(out.result))),
          action |-> "flow_processed"]

(***************************************************************************)
(* Other flow definitions the controller may be constructed with           *)
(***************************************************************************)
\* the steps of testFlow with the steps of changed put over them
withSteps(f, name, changed) ==
    [f EXCEPT !.id = name,
              !.steps = [id \in DOMAIN f.steps \cup DOMAIN changed |->
                           IF id \in DOMAIN changed THEN changed[id] ELSE f.steps[id]]]

\* trigger -> intent Choice {list, add} -> product Input -> create Action ->
\* intent Choice: the Input step leads to the Action, without an image step
directFlow ==
    withSteps(testFlow, "direct",
        [add_product |-> [testFlow.steps["add_product"] EXCEPT
                             !.nextStep = "process_add_product"]])

\* the same flow with the intent Choice step under the id "menu"
menuFlow ==
    [id |-> "menu",
     initialStep |-> "awaiting_trigger",
     steps |->
       [awaiting_trigger |->
          [testFlow.steps["awaiting_trigger"] EXCEPT !.onMatch.nextStep = "menu"],
        menu |->
          [testFlow.steps["awaiting_intent"] EXCEPT !.onInvalid.nextStep = "menu"],
        list_products |->
          [testFlow.steps["list_products"] EXCEPT !.nextStep = "menu"],
        add_product |->
          [testFlow.steps["add_product"] EXCEPT !.nextStep = "process_add_product"],
        process_add_product |->
          [testFlow.steps["process_add_product"] EXCEPT !.nextStep = "menu"]]]

\* testFlow with the image stored under the context key "photo"
photoFlow ==
    withSteps(testFlow, "photo",
        [awaiting_product_image |->
            [testFlow.steps["awaiting_product_image"] EXCEPT !.contextKey = "photo"]])

\* testFlow with a Terminal step after the listProducts action
terminalFlow ==
    withSteps(testFlow, "terminal",
        [list_products |-> [testFlow.steps["list_products"] EXCEPT !.nextStep = "done"],
         done |-> [type |-> "terminal", messageKey |-> Some("intent_prompt")]])

T_help == <<"h","e","l","p">>

\* testFlow with an option "help" for which transitions has no entry
unroutedFlow ==
    withSteps(testFlow, "unrouted",
        [awaiting_intent |->
            [testFlow.steps["awaiting_intent"] EXCEPT
                !.options = Append(@, [id |-> T_help, label |-> "Help",
                                       aliases |-> << >>])]])

\* testFlow with a nextStep that names no step of the definition
danglingFlow ==
    withSteps(testFlow, "dangling",
        [list_products |-> [testFlow.steps["list_products"] EXCEPT
                               !.nextStep = "main_menu"]])

\* testFlow with a second Choice step, offering the first option only, which
\* the intent Choice step names as the step to go to after an invalid input
retryFlow ==
    withSteps(testFlow, "retry",
        [awaiting_intent |-> [testFlow.steps["awaiting_intent"] EXCEPT
                                 !.onInvalid.nextStep = "retry_menu"],
         retry_menu |-> [testFlow.steps["awaiting_intent"] EXCEPT
                            !.options = SubSeq(@, 1, 1)]])

\* testFlow with the listProducts action leading back to the Trigger step
restartFlow ==
    withSteps(testFlow, "restart",
        [list_products |-> [testFlow.steps["list_products"] EXCEPT
                               !.nextStep = "awaiting_trigger"]])

\* testFlow with its two Action steps pointing at each other
cyclicFlow ==
    withSteps(testFlow, "cyclic",
        [list_products |-> [testFlow.steps["list_products"] EXCEPT
                               !.nextStep = "process_add_product"],
         process_add_product |-> [testFlow.steps["process_add_product"] EXCEPT
                                     !.nextStep = "list_products"]])

\* the definitions flows/inventory.json may hold
Flows ==
    {directFlow, menuFlow, photoFlow, terminalFlow, unroutedFlow, danglingFlow,
     retryFlow, restartFlow, cyclicFlow}

M_help == textMsg(T_help)

M_namePrice ==
    textMsg(<<"N","a","m","e",":"," ","W","\n","P","r","i","c","e",":"," ","9",".","9","9">>)

\* the messages sent by the user of the specification FlowsSpec
FlowMessages ==
    {M_GO, M_hi, M_Stop, M_skip, M_list, M_add, M_help, M_image,
     M_all, M_namePrice, M_stock}

\* trigger codes the controller may be constructed with: none, or "Go"
TriggerCodes == {Absent, Some(<<"G","o">>)}

(***************************************************************************)
(* Specification                                                           *)
(***************************************************************************)
\* step: the step the call found the session on ("none" without a session);
\* stop: the message was the stop keyword; evicted: memory.get removed an
\* expired entry; created: a session was made; result: the FlowResult the
\* call returned, absent while it is suspended
Event(op, chatId, step, stop, evicted, created, result) ==
    [op |-> op, chatId |-> chatId, step |-> step, stop |-> stop,
     evicted |-> evicted, created |-> created, result |-> result]

\* an event other than a process call
Other(op, chatId) == Event(op, chatId, "none", FALSE, FALSE, FALSE, Absent)

Init ==
    /\ now = 0
    /\ sessions = [c \in ChatIds |-> Absent]
    /\ heap = [r \in ObjIds |-> Absent]
    /\ calls = << >>
    /\ triggerCode \in TriggerCodes
    /\ wooCommerce \in BOOLEAN
    /\ ev = Other("init", "")
    /\ creates = [c \in ChatIds |-> 0]
    /\ flow = testFlow

\* The objects still referenced by the Map or by a suspended call, the others
\* being garbage.  A reference has no meaning but identity, so the live
\* objects are renumbered in the order the Map and the calls name them.
collect(st, cs) ==
    LET roots == [i \in 1..Len(ChatSeq) |-> st.sessions[ChatSeq[i]]]
                 \o [k \in 1..Len(cs) |-> Some(cs[k].ref)]
        live  == {r \in ObjIds : \E i \in 1..Len(roots) : roots[i] = Some(r)}
        first(r) == CHOOSE i \in 1..Len(roots) :
                       /\ roots[i] = Some(r)
                       /\ \A j \in 1..(i - 1) : roots[j] # Some(r)
        newId(r) == Cardinality({q \in live : first(q) < first(r)}) + 1
    IN  [sessions |-> [c \in ChatIds |->
                          IF IsSome(st.sessions[c])
                          THEN Some(newId(Val(st.sessions[c]))) ELSE Absent],
         heap |-> [n \in ObjIds |->
                      IF \E r \in live : newId(r) = n
                      THEN st.heap[CHOOSE r \in live : newId(r) = n]
                      ELSE Absent],
         calls |-> [k \in 1..Len(cs) |-> [cs[k] EXCEPT !.ref = newId(@)]]]

\* the turn completes the staged record: processInputStep reaches line 570
completesRecord(st, chatId, message, t) ==
    LET got == get(st, chatId, t)
        session == deref(got.st, Val(got.ret))
        step == stepOf(session.currentStep)
        existingData == IF IsSome(session.context["productData"])
                        THEN Val(session.context["productData"]) ELSE emptyProduct
        merged == validateAndMergeProduct(existingData,
                                          parseInputFields(message.content))
    IN  /\ IsSome(got.ret)
        /\ isInputStep(step)
        /\ Val(step).contextKey = "productInput"
        /\ message.type = "text"
        /\ toLowerCase(trim(message.content)) # T_stop
        /\ isProductComplete(merged.product)
        /\ Len(merged.errors) = 0

\* what a process call leaves behind when it returns or suspends; got is
\* what memory.get answered, completes tells that the turn completed the record
Commit(chatId, message, got, out, completes) ==
    LET after == collect(out.st, IF IsSome(out.pending)
                                 THEN Append(calls, Val(out.pending)) ELSE calls)
    IN  /\ IsSome(out.pending) => Len(calls) < MaxCalls
        /\ (IsSome(out.pending) /\ Val(out.pending).io = "createProduct" /\ ~completes)
              => creates[chatId] < MaxCreates
        /\ calls' = after.calls
        /\ sessions' = after.sessions
        /\ heap' = after.heap
        /\ ev' = Event("process", chatId,
                       IF IsSome(got.ret)
                       THEN deref(got.st, Val(got.ret)).currentStep ELSE "none",
                       message.type = "text"
                           /\ toLowerCase(trim(message.content)) = T_stop,
                       IsSome(sessions[chatId]) /\ ~IsSome(got.ret),
                       /\ IsSome(out.st.sessions[chatId])
                       /\ out.st.sessions[chatId] # got.st.sessions[chatId],
                       out.result)
        /\ creates' = [creates EXCEPT ![chatId] =
              (IF completes THEN 0 ELSE @)
              + (IF IsSome(out.pending) /\ Val(out.pending).io = "createProduct"
                 THEN 1 ELSE 0)]
        /\ UNCHANGED << now, triggerCode, wooCommerce, flow >>

\* an incoming message is handed to process(chatId, message)
Process(chatId, message) ==
    \E uuid \in UUIDs :
        Commit(chatId, message, get(store, chatId, now),
               process(store, chatId, message, now, uuid),
               completesRecord(store, chatId, message, now))

\* the promise a suspended call awaits settles and the call runs to its end
Resume(k, io) ==
    /\ k \in 1..Len(calls)
    /\ LET out   == resumeActionStep(store, calls[k], io, now)
           after == collect(out.st, SubSeq(calls, 1, k - 1)
                                    \o SubSeq(calls, k + 1, Len(calls)))
       IN  /\ calls' = after.calls
           /\ sessions' = after.sessions
           /\ heap' = after.heap
           /\ ev' = Event("resume", calls[k].chatId, "none", FALSE, FALSE, FALSE,
                          out.result)
    /\ UNCHANGED << now, triggerCode, wooCommerce, flow, creates >>

\* time passes
Tick ==
    /\ now < MaxTime
    /\ now' = now + 1
    /\ ev' = Other("tick", "")
    /\ UNCHANGED << sessions, heap, calls, triggerCode, wooCommerce, flow, creates >>

\* a turn of a conversation whose turns are taken one after the other
Turn(chatId, message) ==
    /\ Len(calls) = 0
    /\ Process(chatId, message)

\* One conversation, its turns taken one after the other, while time passes.
Next ==
    \/ \E message \in Messages : Turn("a", message)
    \/ \E io \in IoResults : Resume(1, io)
    \/ Tick

Spec == Init /\ [][Next]_vars

\* the expiry sweep of the store runs; evicted tells that it removed an entry
Cleanup ==
    /\ sessions' = cleanup(store, now).sessions
    /\ ev' = Event("cleanup", "", "none", FALSE,
                   cleanup(store, now).sessions # sessions, FALSE, Absent)
    /\ UNCHANGED << now, heap, calls, triggerCode, wooCommerce, flow, creates >>

\* The same conversation while the store is swept at any moment, also while
\* a call awaits the catalog client.
SweepNext ==
    \/ \E message \in Messages : Turn("a", message)
    \/ \E io \in IoResults : Resume(1, io)
    \/ Tick
    \/ Cleanup

SweepSpec == Init /\ [][SweepNext]_vars

\* the stored session of chatId comes to name a step the flow does not have
\* (a session kept from another flow definition)
Corrupt(chatId) ==
    /\ Len(calls) = 0
    /\ IsSome(sessions[chatId])
    /\ heap' = [heap EXCEPT ![Val(sessions[chatId])] =
                   Some([Val(@) EXCEPT !.currentStep = "nonexistent_step"])]
    /\ ev' = Other("corrupt", chatId)
    /\ UNCHANGED << now, sessions, calls, triggerCode, wooCommerce, flow, creates >>

\* The same conversation when a stored session may name an unknown step.
CorruptNext ==
    \/ \E message \in Messages : Turn("a", message)
    \/ \E io \in IoResults : Resume(1, io)
    \/ Tick
    \/ Corrupt("a")

CorruptSpec == Init /\ [][CorruptNext]_vars

\* matchChoiceOption is applied to a Choice step and an input
Match(step, input) ==
    /\ ev' = [op |-> "match", step |-> step, input |-> input,
              matched |-> matchChoiceOption(step, input)]
    /\ UNCHANGED << now, sessions, heap, calls, triggerCode, wooCommerce, flow, creates >>

\* The applications of matchChoiceOption to the Choice steps and the texts.
MatchNext ==
    \E step \in ChoiceSteps, message \in AllMessages :
        message.type = "text" /\ Match(step, message.content)

MatchSpec == Init /\ [][MatchNext]_vars

\* values a user may supply for the price and for the stock
SuppliedValues ==
    {<<"9",".","9","9">>, <<"3">>, <<"0">>, <<"-","5">>, <<"a","b","c">>,
     <<"x">>, <<"3",".","7">>, <<"3","x">>, <<"9",".","9","9","a","b","c">>,
     T_Infinity}

\* staged records: none, and one holding a price and a stock
StagedRecords ==
    {emptyProduct,
     [emptyProduct EXCEPT !.price = Some(Decimal(FALSE, 1, 0)),
                          !.stock = Some(Decimal(FALSE, 1, 0))]}

\* validateAndMergeProduct is applied to a staged record and the fields of
\* an input
Validate(existingData, newFields) ==
    /\ ev' = [op |-> "validate", existingData |-> existingData,
              newFields |-> newFields,
              merged |-> validateAndMergeProduct(existingData, newFields)]
    /\ UNCHANGED << now, sessions, heap, calls, triggerCode, wooCommerce, flow, creates >>

\* The applications of validateAndMergeProduct to the staged records and to
\* inputs that supply a price, a stock, or both.
ValidateNext ==
    \E existingData \in StagedRecords,
       price \in {Absent} \cup {Some(v) : v \in SuppliedValues},
       stock \in {Absent} \cup {Some(v) : v \in SuppliedValues} :
        Validate(existingData,
                 [noFields EXCEPT ![T_price] = price, ![T_stock] = stock])

ValidateSpec == Init /\ [][ValidateNext]_vars

\* createApp: the flow is what loadFlow reads from flows/inventory.json
FlowsInit ==
    /\ now = 0
    /\ sessions = [c \in ChatIds |-> Absent]
    /\ heap = [r \in ObjIds |-> Absent]
    /\ calls = << >>
    /\ triggerCode \in TriggerCodes
    /\ wooCommerce \in BOOLEAN
    /\ ev = Other("init", "")
    /\ creates = [c \in ChatIds |-> 0]
    /\ flow \in Flows

\* One conversation, its turns taken one after the other, within the
\* session timeout.
FlowsNext ==
    \/ \E message \in FlowMessages : Turn("a", message)
    \/ \E io \in IoResults : Resume(1, io)

FlowsSpec == FlowsInit /\ [][FlowsNext]_vars

\* process run to its return, the catalog client answering io; out is
\* process up to its return or its await
settled(out, io, t) ==
    IF IsSome(out.pending)
    THEN resumeActionStep(out.st, Val(out.pending), io, t)
    ELSE out

\* handler.ts, handle: what it leaves and returns
handle(st, payload, io, fail, t, uuid) ==
    IF payload.typeWebhook # "incomingMessageReceived"
    THEN ignored(st, "ignored_webhook_type")
    ELSE IF ~IsSome(extractMessageContent(payload))
    THEN ignored(st, "ignored_unsupported")
    ELSE answered(payload.chatId,
                  settled(process(st, payload.chatId,
                                  Val(extractMessageContent(payload)), t, uuid),
                          io, t),
                  fail)

\* the webhooks received: texts, a pressed button, an image, an image
\* without its file, an empty text, a voice message,
\* and the status of an outgoing message
Payloads ==
       {payloadOf("incomingMessageReceived", "textMessage", m.content, << >>) :
           m \in {M_GO, M_Stop, M_list, M_add, M_all}}
    \cup {payloadOf("incomingMessageReceived", "interactiveButtonsResponse",
                    T_list, << >>),
          payloadOf("incomingMessageReceived", "imageMessage", << >>, <<"u">>),
          payloadOf("incomingMessageReceived", "imageMessage", << >>, << >>),
          payloadOf("incomingMessageReceived", "textMessage", << >>, << >>),
          payloadOf("incomingMessageReceived", "audioMessage", << >>, <<"u">>),
          payloadOf("outgoingMessageStatus", "textMessage", M_GO.content, << >>)}

\* the answers of the catalog client: products, none, a failure
HandlerIo == {io \in IoResults : io.code \in {"none", "network_error"}}

\* what a call of handle leaves behind
Answer(payload, h) ==
    /\ sessions' = collect(h.st, << >>).sessions
    /\ heap' = collect(h.st, << >>).heap
    /\ ev' = [op |-> "handle", chatId |-> payload.chatId, payload |-> payload,
              processed |-> h.processed, result |-> h.result, sent |-> h.sent,
              threw |-> h.threw, handled |-> h.handled, action |-> h.action]
    /\ UNCHANGED << now, calls, triggerCode, wooCommerce, flow, creates >>

\* a webhook is handed to handle, which runs to its end
Handle(payload, io, fail) ==
    Answer(payload, handle(store, payload, io, fail, now, "u1"))

\* the results a flow controller may return to the handler
Directives ==
    {FlowResult(handled, preMessage, response, buttons) :
        handled \in BOOLEAN,
        preMessage \in {Absent, Some(<< >>), Some(Lit("pre"))},
        response \in {Absent, Some(Lit("welcome"))},
        buttons \in {Absent,
                     Some(buildButtonsFromChoice(testFlow.steps["awaiting_intent"]))}}

\* a webhook is handed to a handler whose flow controller is a stand-in
\* that returns result
Deliver(result, fail) ==
    Answer(payloadOf("incomingMessageReceived", "textMessage", M_hi.content, << >>),
           answered("a", Return(store, result), fail))

\* The webhooks of one chat, handled one after the other.
HandlerNext ==
    \/ \E payload \in Payloads, io \in HandlerIo, fail \in 0..2 :
          Handle(payload, io, fail)
    \/ \E result \in Directives, fail \in 0..2 : Deliver(result, fail)

HandlerSpec == Init /\ [][HandlerNext]_vars

\* a store holding one session of the chat, waiting on the step
sessionAt(chatId, stepId, t) ==
    set([sessions |-> [c \in ChatIds |-> Absent], heap |-> [r \in ObjIds |-> Absent]],
        chatId, 1, createSession(chatId, stepId, t), t)

\* processActionStep run to its return, the catalog client answering io
executedAction(st, chatId, step, io, ack, t, uuid) ==
    IF IsSome(processActionStep(st, chatId, 1, step, ack, t, uuid).pending)
    THEN resumeActionStep(processActionStep(st, chatId, 1, step, ack, t, uuid).st,
             Val(processActionStep(st, chatId, 1, step, ack, t, uuid).pending),
             io, t)
    ELSE processActionStep(st, chatId, 1, step, ack, t, uuid)

\* the result string of the listProducts action or of an unknown action
actionResultOf(step, io) ==
    IF step.action # "listProducts" THEN << Part("[Action]", << step.action >>) >>
    ELSE IF ~wooCommerce THEN Lit("[WooCommerce not configured]")
    ELSE listProductsSettled(createSession("a", "list_products", now), io).actionResult

\* processActionStep is called for an Action step, by a step function (ack:
\* by the image branch of processImageInputStep), and returns
ExecuteAction(step, io, ack) ==
    /\ sessions' = executedAction(sessionAt("a", "list_products", now), "a",
                                  step, io, ack, now, "u1").st.sessions
    /\ heap' = executedAction(sessionAt("a", "list_products", now), "a",
                              step, io, ack, now, "u1").st.heap
    /\ ev' = [op |-> "action", chatId |-> "a", step |-> step, ack |-> ack,
              actionResult |-> actionResultOf(step, io),
              result |-> executedAction(sessionAt("a", "list_products", now), "a",
                                        step, io, ack, now, "u1").result]
    /\ UNCHANGED << now, calls, triggerCode, wooCommerce, flow, creates >>

\* The executions of an Action step, for every step that may follow it.
ActionNext ==
    \E step \in ActionSteps, io \in IoResults, ack \in BOOLEAN :
        ExecuteAction(step, io, ack)

ActionSpec == Init /\ [][ActionNext]_vars

\* One conversation whose messages arrive at any moment, also while an
\* earlier call awaits the catalog client; sessions do not expire meanwhile.
ConcurrentNext ==
    \/ \E message \in CoreMessages : Process("a", message)
    \/ \E k \in 1..MaxCalls, io \in IoResults : Resume(k, io)

ConcurrentSpec == Init /\ [][ConcurrentNext]_vars

\* the messages sent by the users of the specification IsolationSpec
IsolationMessages == {M_GO, M_Stop, M_list, M_add, M_image, M_all}

\* a message of the chat arrives while no earlier call for that chat is
\* suspended; calls for the other chat may be
ChatTurn(chatId, message) ==
    /\ \A k \in 1..Len(calls) : calls[k].chatId # chatId
    /\ Process(chatId, message)

\* Two conversations within the session timeout, the calls for one interleaved
\* with the calls for the other, also while a call awaits the catalog client.
IsolationNext ==
    \/ \E chatId \in ChatIds, message \in IsolationMessages : ChatTurn(chatId, message)
    \/ \E k \in 1..MaxCalls, io \in HandlerIo : Resume(k, io)

IsolationSpec == Init /\ [][IsolationNext]_vars

(***************************************************************************)
(* Properties.  A property of a turn is stated for every message that may  *)
(* arrive in a reachable state: process is applied to the store as it is.  *)
(***************************************************************************)
\* a turn can start: no earlier call is suspended
idle == Len(calls) = 0

TextMessages == {m \in AllMessages : m.type = "text"}

hasLiveSession(st, chatId, t) == IsSome(get(st, chatId, t).ret)

\* the trigger condition in the words of the specification
specTriggerMatch(content) ==
    \/ ~IsSome(triggerCode)
    \/ trim(toLowerCase(content)) = toLowerCase(Val(triggerCode))

noMatchResult ==
    FlowResult(flow.steps[flow.initialStep].onNoMatch.handled, Absent, Absent, Absent)

\* process(chatId, message) started without a live session and left out;
\* kept is the store it has to leave when it creates no session
triggerGated(chatId, message, out, kept) ==
    /\ IsSome(out.result)
    /\ hasLiveSession(out.st, chatId, now) <=> specTriggerMatch(message.content)
    /\ ~specTriggerMatch(message.content) =>
           out.result = Some(noMatchResult) /\ out.st = kept

\* C1, amended: without a live session, process(id, text T) creates and stores
\* a session iff no trigger code is configured or trim(lowercase(T)) equals
\* lowercase(C); when none is created the result is {handled: onNoMatch.handled}
\* and the store is unchanged but for the expired entry of id, which is removed.
TriggerGating ==
    idle => \A chatId \in ChatIds, message \in TextMessages, uuid \in UUIDs :
        ~hasLiveSession(store, chatId, now) =>
            triggerGated(chatId, message,
                         process(store, chatId, message, now, uuid),
                         get(store, chatId, now).st)

\* C1 as written: when no session is created the store is unchanged.
TriggerGatingStoreUnchanged ==
    idle => \A chatId \in ChatIds, message \in TextMessages, uuid \in UUIDs :
        ~hasLiveSession(store, chatId, now) =>
            triggerGated(chatId, message,
                         process(store, chatId, message, now, uuid), store)

\* a trigger code is configured and a turn has created a session, none being
\* stored before
TriggerGatingWitness ==
    ev.op = "process" /\ ev.created /\ ~ev.evicted /\ IsSome(triggerCode)

\* C2: turns of one conversation are serialized: while a process call for an
\* id is between its session read and its last session write, an await of the
\* catalog client included, no other process call for that id starts.
SerializedTurns ==
    [][ev'.op = "process" =>
          \A k \in 1..Len(calls) : calls[k].chatId # ev'.chatId]_vars

\* C3: for one completed staged record createProduct is invoked at most once,
\* whatever the interleaving of the process calls of the conversation.
NoDuplicateCreate == \A chatId \in ChatIds : creates[chatId] <= 1

\* the message is a text equal to "stop" after trimming and ignoring case
isStopText(message) ==
    message.type = "text" /\ trim(toLowerCase(message.content)) = T_stop

\* the session stored for chatId
sessionOf(st, chatId) == deref(st, Val(st.sessions[chatId]))

\* the step the live session of chatId is on, absent without a live session
liveStep(st, chatId, t) ==
    IF hasLiveSession(st, chatId, t)
    THEN stepOf(sessionOf(st, chatId).currentStep) ELSE Absent

noStagedRecord(st, chatId) ==
    /\ sessionOf(st, chatId).context["productData"] = Absent
    /\ sessionOf(st, chatId).context["productImage"] = Absent

\* the buttons of the intent-selection step under the cancelled message
cancelledResult ==
    FlowResult(TRUE, Absent, Absent,
               Some(withHeader(buildButtonsFromChoice(flow.steps["awaiting_intent"]),
                               getMessage("add_product_cancelled"))))

\* out is what a later add attempt has left
addStartsEmpty(chatId, out) ==
    /\ IsSome(out.st.sessions[chatId])
    /\ isInputStep(stepOf(sessionOf(out.st, chatId).currentStep))
    /\ noStagedRecord(out.st, chatId)

\* out is what the turn of a stop message has left
cancelled(chatId, out, uuid) ==
    /\ out.result = Some(cancelledResult)
    /\ IsSome(out.st.sessions[chatId])
    /\ sessionOf(out.st, chatId).currentStep = "awaiting_intent"
    /\ noStagedRecord(out.st, chatId)
    /\ \A add \in {M_add, M_2} :
           addStartsEmpty(chatId, process(out.st, chatId, add, now, uuid))

\* C4: a text equal to "stop" after trimming and ignoring case, received on
\* an Input or ImageInput step, removes the staged record and the staged image,
\* sets currentStep to awaiting_intent and returns that step's buttons with
\* the cancelled message as header; a later add attempt in the session starts
\* from an empty staged record.
Cancellation ==
    idle => \A chatId \in ChatIds, message \in AllMessages, uuid \in UUIDs :
        /\ isStopText(message)
        /\ \/ isInputStep(liveStep(store, chatId, now))
           \/ isImageInputStep(liveStep(store, chatId, now))
        => cancelled(chatId, process(store, chatId, message, now, uuid), uuid)

\* a stop message has just cancelled a session that was on the ImageInput
\* step, where a complete record is staged
CancellationWitness ==
    /\ ev.op = "process" /\ ev.stop /\ ev.step = "awaiting_product_image"
    /\ IsSome(sessions[ev.chatId])
    /\ sessionOf(store, ev.chatId).currentStep = "awaiting_intent"
    /\ noStagedRecord(store, ev.chatId)

\* the live session of chatId is on the product Input step
onProductInput(st, chatId, t) ==
    /\ isInputStep(liveStep(st, chatId, t))
    /\ Val(liveStep(st, chatId, t)).contextKey = "productInput"

\* the staged record of the stored session, empty when none is staged
stagedRecord(st, chatId) ==
    IF IsSome(sessionOf(st, chatId).context["productData"])
    THEN Val(sessionOf(st, chatId).context["productData"]) ELSE emptyProduct

\* the record has name, price and stock, and the merge reported no error
fullyValid(merged) ==
    /\ merged.product.name # Absent
    /\ merged.product.price # Absent
    /\ merged.product.stock # Absent
    /\ merged.errors = << >>

\* the re-prompt of the product Input step
rePrompt(merged) ==
    FlowResult(TRUE, Absent,
               Some(buildMissingFieldsPrompt(merged.product, merged.errors)), Absent)

\* out is what a text turn has left of a session that was on the product
\* Input step before, merged the staged record merged with the parsed fields
advancesOnlyWhenValid(chatId, before, merged, out) ==
    /\ IsSome(out.st.sessions[chatId])
    /\ sessionOf(out.st, chatId).currentStep = Val(before).nextStep
           => fullyValid(merged)
    /\ ~fullyValid(merged) =>
           /\ sessionOf(out.st, chatId).currentStep =
                  sessionOf(store, chatId).currentStep
           /\ sessionOf(out.st, chatId).context["productData"] = Some(merged.product)
           /\ out.result = Some(rePrompt(merged))

\* C5, amended: at the product Input step a text turn other than stop
\* advances currentStep to the step's nextStep only if the merged record has
\* name, price and stock and the merge produced no validation error; otherwise
\* currentStep stays, the merged record is stored and the response is the
\* missing-fields/errors re-prompt.
InputAdvance ==
    idle => \A chatId \in ChatIds, message \in TextMessages, uuid \in UUIDs :
        onProductInput(store, chatId, now) /\ ~isStopText(message) =>
            advancesOnlyWhenValid(chatId, liveStep(store, chatId, now),
                validateAndMergeProduct(stagedRecord(store, chatId),
                                        parseInputFields(message.content)),
                process(store, chatId, message, now, uuid))

\* C5 as written: the same of every text turn.
InputAdvanceAnyText ==
    idle => \A chatId \in ChatIds, message \in TextMessages, uuid \in UUIDs :
        onProductInput(store, chatId, now) =>
            advancesOnlyWhenValid(chatId, liveStep(store, chatId, now),
                validateAndMergeProduct(stagedRecord(store, chatId),
                                        parseInputFields(message.content)),
                process(store, chatId, message, now, uuid))

\* a text turn has left the session on the product Input step although the
\* record holds name, price and stock: the merge reported an error
InputAdvanceWitness ==
    /\ ev.op = "process" /\ ev.step = "add_product" /\ ~ev.stop
    /\ IsSome(sessions[ev.chatId])
    /\ sessionOf(store, ev.chatId).currentStep = "add_product"
    /\ stagedRecord(store, ev.chatId).name # Absent
    /\ stagedRecord(store, ev.chatId).price # Absent
    /\ stagedRecord(store, ev.chatId).stock # Absent

\* partial inputs that supply a valid name and nothing else
ValidNameInputs == {M_nameW, M_nameG}

\* partial inputs that supply an invalid price and a valid quantity
InvalidPriceValidQuantityInputs == {M_priceBadStock, M_priceNegStock}

\* R merged with the fields of I1, and the outcome merged with those of I2
mergedTwice(R, I1, I2) ==
    validateAndMergeProduct(
        validateAndMergeProduct(R, parseInputFields(I1.content)).product,
        parseInputFields(I2.content))

\* m is the outcome of I1 then I2: name and quantity are set, the price is
\* priceAfter, and the one error is about the price
accumulated(I1, m, priceAfter) ==
    /\ m.product.name # Absent
    /\ m.product.name = parseInputFields(I1.content)[T_name]
    /\ m.product.stock # Absent
    /\ m.product.price = priceAfter
    /\ m.errors = << Part("validation_error_price", << >>) >>

\* C6, amended: a staged record R merged with I1 (valid name) and then I2
\* (invalid price, valid quantity) has name and quantity set, the price R
\* had (unset when R had none), and exactly one error, which is about price.
MonotonicAccumulation ==
    \A chatId \in ChatIds : IsSome(sessions[chatId]) =>
        \A I1 \in ValidNameInputs, I2 \in InvalidPriceValidQuantityInputs :
            accumulated(I1, mergedTwice(stagedRecord(store, chatId), I1, I2),
                        stagedRecord(store, chatId).price)

\* C6 as written: the resulting record has the price unset.
MonotonicAccumulationPriceUnset ==
    \A chatId \in ChatIds : IsSome(sessions[chatId]) =>
        \A I1 \in ValidNameInputs, I2 \in InvalidPriceValidQuantityInputs :
            accumulated(I1, mergedTwice(stagedRecord(store, chatId), I1, I2),
                        Absent)

\* turns at the product Input step have staged a name and a quantity and no
\* price
MonotonicAccumulationWitness ==
    /\ ev.op = "process" /\ ev.step = "add_product" /\ ~ev.stop
    /\ IsSome(sessions[ev.chatId])
    /\ sessionOf(store, ev.chatId).currentStep = "add_product"
    /\ stagedRecord(store, ev.chatId).name # Absent
    /\ stagedRecord(store, ev.chatId).price = Absent
    /\ stagedRecord(store, ev.chatId).stock # Absent

\* the value a message supplies for a field is a valid one
validName(value) == Len(value) > 0

validPrice(value) == isPositive(parseFloat(value))

validStock(value) ==
    isNonNegative(parseInt(value)) /\ isInteger(parseInt(value))

\* a field held before and after a turn: supplied is the text the turn gave
\* for it, valid tells that the text is a valid value, value is what it denotes
fieldKept(before, after, supplied, valid, value) ==
    /\ before # Absent => after # Absent
    /\ after # before => supplied # Absent /\ valid /\ after = Some(value)
    /\ supplied = Absent \/ ~valid => after = before

\* the staged record before a turn, after it, and the fields of its message
recordKept(R, S, fields) ==
    /\ fieldKept(R.name, S.name, fields[T_name],
                 fields[T_name] # Absent /\ validName(Val(fields[T_name])),
                 Val(fields[T_name]))
    /\ fieldKept(R.price, S.price, fields[T_price],
                 fields[T_price] # Absent /\ validPrice(Val(fields[T_price])),
                 parseFloat(Val(fields[T_price])))
    /\ fieldKept(R.stock, S.stock, fields[T_stock],
                 fields[T_stock] # Absent /\ validStock(Val(fields[T_stock])),
                 parseInt(Val(fields[T_stock])))
    /\ fieldKept(R.description, S.description, fields[T_description],
                 fields[T_description] # Absent, Val(fields[T_description]))

\* out is what the turn has left
recordKeptBy(chatId, message, out) ==
    /\ IsSome(out.st.sessions[chatId])
    /\ recordKept(stagedRecord(store, chatId), stagedRecord(out.st, chatId),
                  parseInputFields(message.content))

\* C7: in a text turn at the product Input step other than stop, a field of
\* the staged record that has been accepted is not removed, and its value
\* changes only if the turn supplies a valid new value for that field; a turn
\* that omits the field or supplies an invalid value leaves it untouched.
AcceptedFieldsKept ==
    idle => \A chatId \in ChatIds, message \in TextMessages, uuid \in UUIDs :
        onProductInput(store, chatId, now) /\ ~isStopText(message) =>
            recordKeptBy(chatId, message,
                         process(store, chatId, message, now, uuid))

\* a turn at the product Input step has left a price and a quantity staged
\* and no name
AcceptedFieldsKeptWitness ==
    /\ ev.op = "process" /\ ev.step = "add_product" /\ ~ev.stop
    /\ IsSome(sessions[ev.chatId])
    /\ sessionOf(store, ev.chatId).currentStep = "add_product"
    /\ stagedRecord(store, ev.chatId).name = Absent
    /\ stagedRecord(store, ev.chatId).price # Absent
    /\ stagedRecord(store, ev.chatId).stock # Absent

\* a session is stored for chatId and its expiresAt has passed
storedExpired(st, chatId, t) ==
    IsSome(st.sessions[chatId]) /\ t > sessionOf(st, chatId).expiresAt

\* out is what process has left from a store holding an expired session of
\* chatId, bare what it leaves from the same store without that entry
asWithoutSession(chatId, out, bare) ==
    /\ out = bare
    /\ IsSome(out.st.sessions[chatId]) =>
           /\ sessionOf(out.st, chatId).context = [k \in ContextKeys |-> Absent]
           /\ sessionOf(out.st, chatId).createdAt = now
           /\ out.st.sessions[chatId] # sessions[chatId]

\* C8: once the stored session of an id has expired, the next process call
\* for the id behaves as without a session, and a matching trigger creates a
\* new session whose context is empty: nothing of the expired one is visible.
NoLeakageAcrossExpiry ==
    idle => \A chatId \in ChatIds, message \in AllMessages, uuid \in UUIDs :
        storedExpired(store, chatId, now) =>
            asWithoutSession(chatId,
                process(store, chatId, message, now, uuid),
                process([store EXCEPT !.sessions[chatId] = Absent],
                        chatId, message, now, uuid))

\* a process call has found an expired session, removed it and created a new
\* one, whose context is empty
NoLeakageAcrossExpiryWitness ==
    /\ ev.op = "process" /\ ev.evicted /\ ev.created
    /\ sessionOf(store, ev.chatId).context = [k \in ContextKeys |-> Absent]

\* g is what memory.get(chatId) answers and leaves
getAnswers(chatId, g) ==
    /\ g.ret # Absent <=>
           IsSome(sessions[chatId]) /\ now <= sessionOf(store, chatId).expiresAt
    /\ g.ret # Absent => g.ret = sessions[chatId] /\ g.st = store
    /\ ~IsSome(sessions[chatId]) => g.st = store
    /\ storedExpired(store, chatId, now) =>
           /\ g.st.sessions = [sessions EXCEPT ![chatId] = Absent]
           /\ g.st.heap = heap
    /\ g.ret # Absent => ~(now > deref(g.st, Val(g.ret)).expiresAt)

\* C9: memory.get(id) returns the stored session iff one is stored and
\* now <= expiresAt; when now > expiresAt it removes the entry and returns
\* absent, so no caller receives a session whose expiresAt has passed.
GetEvictsExpired ==
    \A chatId \in ChatIds : getAnswers(chatId, get(store, chatId, now))

\* the memory.get of a process call has removed an expired entry, and the
\* call has stored no session
GetEvictsExpiredWitness ==
    ev.op = "process" /\ ev.evicted /\ ~ev.created /\ sessions[ev.chatId] = Absent

\* after is the store memory.set(chatId, s) leaves, s being the object ref
setStores(chatId, ref, after) ==
    /\ after.sessions = [sessions EXCEPT ![chatId] = Some(ref)]
    /\ deref(after, ref) = [deref(store, ref) EXCEPT !.updatedAt = now,
                                                   !.expiresAt = now + timeoutMs]
    /\ \A r \in ObjIds \ {ref} : after.heap[r] = heap[r]

\* C10: memory.set(id, s) stores s under id with updatedAt = now and
\* expiresAt = now + timeoutMs, timeoutMs being the one value given at store
\* construction; every session in the store has
\* expiresAt = updatedAt + timeoutMs.
SetRefreshesExpiry ==
    /\ \A chatId \in ChatIds : IsSome(sessions[chatId]) =>
           sessionOf(store, chatId).expiresAt =
               sessionOf(store, chatId).updatedAt + timeoutMs
    /\ \A chatId \in ChatIds, ref \in ObjIds : IsSome(heap[ref]) =>
           setStores(chatId, ref, set(store, chatId, ref, deref(store, ref), now))

\* a session is stored that memory.set has refreshed after its creation
SetRefreshesExpiryWitness ==
    \E chatId \in ChatIds :
        /\ IsSome(sessions[chatId])
        /\ sessionOf(store, chatId).updatedAt > sessionOf(store, chatId).createdAt
        /\ sessionOf(store, chatId).updatedAt = now

\* after is the store the sweep leaves
sweptExactly(after) ==
    /\ \A chatId \in ChatIds :
           after.sessions[chatId] =
               IF storedExpired(store, chatId, now) THEN Absent ELSE sessions[chatId]
    /\ after.heap = heap

\* C11: cleanup removes exactly the entries with now > expiresAt and leaves
\* every other entry unchanged; run at any point between the steps of any
\* conversation it never removes a session that has not expired.
CleanupRemovesExpired ==
    /\ sweptExactly(cleanup(store, now))
    /\ ev.op = "cleanup" =>
           \A chatId \in ChatIds : ~storedExpired(store, chatId, now)

\* a sweep has just removed an entry
CleanupRemovesExpiredWitness == ev.op = "cleanup" /\ ev.evicted

\* the result {handled: false}
notHandled == FlowResult(FALSE, Absent, Absent, Absent)

\* out is what process has left of a session on an unknown step
selfHealed(chatId, out, uuid) ==
    /\ out.result = Some(notHandled)
    /\ out.pending = Absent
    /\ out.st = [store EXCEPT !.sessions[chatId] = Absent]
    /\ \A next \in AllMessages :
           process(out.st, chatId, next, now, uuid).result =
               IF next.type = "text" /\ specTriggerMatch(next.content)
               THEN process([sessions |-> [c \in ChatIds |-> Absent], heap |-> heap],
                            chatId, next, now, uuid).result
               ELSE Some(noMatchResult)

\* C12: if the currentStep of a live session is no step id of the flow,
\* process deletes the session and returns {handled: false} without calling
\* the catalog client, and the next message for the id is evaluated as
\* without a session, by the initial Trigger step.
CorruptionSelfHeals ==
    idle => \A chatId \in ChatIds, message \in AllMessages, uuid \in UUIDs :
        hasLiveSession(store, chatId, now)
        /\ sessionOf(store, chatId).currentStep \notin DOMAIN flow.steps
        => selfHealed(chatId, process(store, chatId, message, now, uuid), uuid)

\* a process call has found the session on an unknown step and removed it
CorruptionSelfHealsWitness ==
    /\ ev.op = "process" /\ ev.step = "nonexistent_step"
    /\ sessions[ev.chatId] = Absent

\* the option qualifies for the input: its id or one of its aliases equals
\* the trimmed input, letter case ignored on both sides
qualifies(option, input) ==
    \/ toLowerCase(option.id) = toLowerCase(trim(input))
    \/ \E j \in 1..Len(option.aliases) :
           toLowerCase(option.aliases[j]) = toLowerCase(trim(input))

\* the message is a text that no option of the step qualifies for
unmatchedText(step, message) ==
    /\ message.type = "text"
    /\ \A i \in 1..Len(step.options) : ~qualifies(step.options[i], message.content)

\* the result carries the onInvalid message of the step: as the header of
\* buttons, or as the response
carriesInvalidMessage(step, result) ==
    /\ result.handled
    /\ \/ /\ IsSome(result.buttons)
          /\ Val(result.buttons).header = Some(getMessage(step.onInvalid.messageKey))
       \/ result.response = Some(getMessage(step.onInvalid.messageKey))

\* out is what the turn of an unmatched text has left, again what the turn
\* of the same text after it has left
rePrompted(chatId, step, out, again) ==
    /\ IsSome(out.result) /\ IsSome(again.result)
    /\ carriesInvalidMessage(step, Val(out.result))
    /\ sessionOf(out.st, chatId).currentStep = step.onInvalid.nextStep
    /\ sessionOf(out.st, chatId).context = sessionOf(store, chatId).context
    /\ again.result = out.result
    /\ sessionOf(again.st, chatId).currentStep = step.onInvalid.nextStep

firstQualifying(step, input) ==
    IF \A i \in 1..Len(step.options) : ~qualifies(step.options[i], input)
    THEN Absent
    ELSE Some(step.options[CHOOSE i \in 1..Len(step.options) :
                  /\ qualifies(step.options[i], input)
                  /\ \A j \in 1..(i - 1) : ~qualifies(step.options[j], input)].id)

\* C14: the matched option is the first option, in declaration order, whose
\* id or one of whose aliases equals the trimmed input, letter case ignored
\* on the input and on the id or alias; no match only if none qualifies.
ChoiceMatching ==
    ev.op = "match" => ev.matched = firstQualifying(ev.step, ev.input)

\* the text matches an option of the Choice step whose transition targets
\* an Action step
targetsAction(step, message) ==
    /\ message.type = "text"
    /\ IsSome(matchChoiceOption(step, message.content))
    /\ Val(matchChoiceOption(step, message.content)) \in DOMAIN step.transitions
    /\ isActionStep(stepOf(
           step.transitions[Val(matchChoiceOption(step, message.content))].nextStep))

\* the id of the Action step the matched option leads to
chainedActionId(step, message) ==
    step.transitions[Val(matchChoiceOption(step, message.content))].nextStep

\* out is what a call that has executed the Action step leaves as it returns
returnedPastAction(chatId, actionId, out) ==
    /\ out.pending = Absent
    /\ IsSome(out.result)
    /\ Val(out.result).handled
    /\ truthy(Val(out.result).preMessage) \/ truthy(Val(out.result).response)
    /\ IsSome(out.st.sessions[chatId])
    /\ sessionOf(out.st, chatId).currentStep = flow.steps[actionId].nextStep
    /\ sessionOf(out.st, chatId).currentStep # actionId

\* out is what the call of the matched option has left: it has returned, or
\* it awaits the catalog client for the action and returns when that settles
chained(chatId, actionId, out) ==
    IF IsSome(out.pending)
    THEN /\ Val(out.pending).chatId = chatId
         /\ Val(out.pending).step = flow.steps[actionId]
         /\ \A io \in IoResults, t \in now..MaxTime :
                returnedPastAction(chatId, actionId,
                    resumeActionStep(out.st, Val(out.pending), io, t))
    ELSE returnedPastAction(chatId, actionId, out)

\* C15: when the transition of a matched choice option targets an Action
\* step, the action is executed inside the same process call, and when that
\* call returns the stored session's currentStep is the Action's nextStep,
\* not the Action step itself.
ChainedAction ==
    idle => \A chatId \in ChatIds, message \in AllMessages, uuid \in UUIDs :
        isChoiceStep(liveStep(store, chatId, now))
        /\ targetsAction(Val(liveStep(store, chatId, now)), message)
        => chained(chatId,
               chainedActionId(Val(liveStep(store, chatId, now)), message),
               process(store, chatId, message, now, uuid))

\* a call at the Choice step has executed the listProducts action and has
\* returned, without the catalog client or after its answer
ChainedActionWitness ==
    /\ \/ ev.op = "process" /\ ev.step = "awaiting_intent"
       \/ ev.op = "resume"
    /\ IsSome(ev.result)
    /\ \/ Val(ev.result).preMessage = Some(Lit("[WooCommerce not configured]"))
       \/ Val(ev.result).preMessage = Some(<< Part("products", << >>) >>)
    /\ sessionOf(store, ev.chatId).currentStep = flow.steps["list_products"].nextStep

\* the Action step the turn of the message leads to from the step, if any:
\* through a matched option of a Choice step, or through an image or the
\* skip keyword at an ImageInput step whose nextStep is an Action
actionOfTurn(step, message) ==
    IF isChoiceStep(step) /\ targetsAction(Val(step), message)
    THEN Some(chainedActionId(Val(step), message))
    ELSE IF /\ isImageInputStep(step)
            /\ isActionStep(stepOf(Val(step).nextStep))
            /\ \/ message.type = "image"
               \/ /\ message.type = "text"
                  /\ Val(step).optional
                  /\ IsSome(Val(step).skipKeyword)
                  /\ toLowerCase(trim(message.content))
                         = toLowerCase(Val(Val(step).skipKeyword))
    THEN Some(Val(step).nextStep)
    ELSE Absent

\* sub occurs in str
contains(str, sub) ==
    \E i \in 0..(Len(str) - Len(sub)) : SubSeq(str, i + 1, i + Len(sub)) = sub

\* the text the action reports when its call of the catalog client rejects
\* with the code ("other": an error that is no WooCommerceError)
errorText(action, code) ==
       getMessage(IF action = "listProducts"
                  THEN "list_products_error" ELSE "add_product_error")
    \o getMessage(IF code \in DOMAIN errorCodeToMessageKey
                  THEN errorCodeToMessageKey[code] ELSE "error_unknown")

\* out is a call that has returned handled, reporting the text as the
\* result of the action and leaving the session on the Action's nextStep
reportedAndAdvanced(chatId, actionId, text, out) ==
    /\ out.pending = Absent
    /\ IsSome(out.result)
    /\ Val(out.result).handled
    /\ \/ /\ IsSome(Val(out.result).preMessage)
          /\ contains(Val(Val(out.result).preMessage), text)
       \/ /\ IsSome(Val(out.result).response)
          /\ contains(Val(Val(out.result).response), text)
    /\ IsSome(out.st.sessions[chatId])
    /\ sessionOf(out.st, chatId).currentStep = flow.steps[actionId].nextStep

\* out is what the call that executes the Action step has left
failureReported(chatId, actionId, out) ==
    IF ~wooCommerce
    THEN reportedAndAdvanced(chatId, actionId,
                             Lit("[WooCommerce not configured]"), out)
    ELSE /\ IsSome(out.pending)
         /\ \A io \in IoResults, t \in now..MaxTime :
                ~io.ok =>
                    reportedAndAdvanced(chatId, actionId,
                        errorText(flow.steps[actionId].action, io.code),
                        resumeActionStep(out.st, Val(out.pending), io, t))

\* C16: an Action step never fails the turn: when getProducts/createProduct
\* rejects (with any WooCommerceError code or any other error) or no catalog
\* client is configured, process returns handled=true with the error / "not
\* configured" text as the action result, and the stored session's
\* currentStep is the Action's nextStep.
ActionNeverFailsTurn ==
    idle => \A chatId \in ChatIds, message \in AllMessages, uuid \in UUIDs :
        IsSome(actionOfTurn(liveStep(store, chatId, now), message))
        => failureReported(chatId,
               Val(actionOfTurn(liveStep(store, chatId, now), message)),
               process(store, chatId, message, now, uuid))

\* createProduct has rejected with image_upload_error and the call has
\* returned the error text, the session being past the Action step
ActionNeverFailsTurnWitness ==
    /\ ev.op = "resume"
    /\ IsSome(ev.result)
    /\ Val(ev.result).handled
    /\ IsSome(Val(ev.result).preMessage)
    /\ contains(Val(Val(ev.result).preMessage),
                errorText("addProduct", "image_upload_error"))
    /\ sessionOf(store, ev.chatId).currentStep
           = flow.steps["process_add_product"].nextStep

\* the result string as the directive carries it: behind the
\* acknowledgement of an image, if the caller adds one
carried(actionResult, ack) ==
    (IF ack THEN getMessage("add_product_image_received") ELSE << >>) \o actionResult

\* the prompt of the step, if it has one
promptOf(step) ==
    IF hasMessageKey(step) THEN getMessage(Val(Val(step).messageKey)) ELSE << >>

changesImageState(step, message) ==
    \/ toLowerCase(trim(message.content)) = T_stop
    \/ /\ step.optional
       /\ IsSome(step.skipKeyword)
       /\ toLowerCase(trim(message.content)) = toLowerCase(Val(step.skipKeyword))

\* the invalid-image re-prompt
invalidImageResult ==
    FlowResult(TRUE, Absent, Some(getMessage("add_product_image_invalid")), Absent)

\* out is a call that has answered with the re-prompt and has left the
\* store, and with it currentStep and context, as it was
imageRePrompted(chatId, out) ==
    /\ out.result = Some(invalidImageResult)
    /\ out.pending = Absent
    /\ out.st = store
    /\ sessionOf(out.st, chatId).currentStep = sessionOf(store, chatId).currentStep
    /\ sessionOf(out.st, chatId).context = sessionOf(store, chatId).context

\* C18: at an ImageInput step the only text inputs that change state are
\* "stop" and, when the step is optional and has a skipKeyword, that keyword
\* (both trimmed, case-insensitive); any other text, the skip keyword on a
\* non-optional step included, returns the invalid-image re-prompt with
\* handled=true and leaves currentStep and context unchanged.
ImageInputTextFrame ==
    idle => \A chatId \in ChatIds, message \in TextMessages, uuid \in UUIDs :
        isImageInputStep(liveStep(store, chatId, now)) =>
            /\ ~changesImageState(Val(liveStep(store, chatId, now)), message)
               => imageRePrompted(chatId, process(store, chatId, message, now, uuid))
            /\ \A step \in ImageInputSteps :
                   ~changesImageState(step, message)
                   => imageRePrompted(chatId,
                          processImageInputStep(store, chatId, message,
                              Val(sessions[chatId]), step, now, uuid))

\* a text that is neither keyword has been answered with the re-prompt at
\* the ImageInput step, the session staying on it with its staged record
ImageInputTextFrameWitness ==
    /\ ev.op = "process" /\ ev.step = "awaiting_product_image"
    /\ ev.result = Some(invalidImageResult)
    /\ sessionOf(store, ev.chatId).currentStep = "awaiting_product_image"
    /\ IsSome(sessionOf(store, ev.chatId).context["productData"])

\* the result string of the addProduct action whose request req the catalog
\* client has answered with io
addResultText(req, io) ==
    IF io.ok THEN << Part("add_product_received", req.name) >>
    ELSE errorText("addProduct", io.code)

\* the session holds the image of the message under the contextKey
imageStored(session, step, message) ==
    session.context[step.contextKey]
        = Some([url |-> message.content, mimeType |-> message.mimeType])

\* result is the output of the action, text its result string, with the
\* image-received acknowledgement put before it
acknowledged(result, text) ==
    /\ IsSome(result)
    /\ Val(result).handled
    /\ Val(result).preMessage
           = Some(getMessage("add_product_image_received") \o text)
    /\ Val(result).buttons
           = Some(buildButtonsFromChoice(flow.steps["awaiting_intent"]))

\* out is what the call of an image message at the ImageInput step, whose
\* nextStep is the addProduct Action, has left
imageAccepted(chatId, step, message, out) ==
    IF ~wooCommerce
    THEN /\ out.pending = Absent
         /\ imageStored(sessionOf(out.st, chatId), step, message)
         /\ sessionOf(out.st, chatId).currentStep
                = flow.steps[step.nextStep].nextStep
         /\ acknowledged(out.result, Lit("[WooCommerce not configured]"))
    ELSE /\ IsSome(out.pending)
         /\ imageStored(sessionOf(out.st, chatId), step, message)
         /\ sessionOf(out.st, chatId).currentStep = step.nextStep
         /\ Val(out.pending).step = flow.steps[step.nextStep]
         /\ Val(out.pending).io = "createProduct"
         /\ Val(Val(out.pending).req).images
                = << [src |-> message.content,
                      name |-> Val(Val(sessionOf(store, chatId)
                                         .context["productData"]).name)] >>
         /\ \A io \in IoResults, t \in now..MaxTime :
                acknowledged(
                    resumeActionStep(out.st, Val(out.pending), io, t).result,
                    addResultText(Val(Val(out.pending).req), io))

skipsImage(step, message) ==
    /\ isImageInputStep(step)
    /\ Val(step).optional
    /\ IsSome(Val(step).skipKeyword)
    /\ message.type = "text"
    /\ toLowerCase(trim(message.content)) = toLowerCase(Val(Val(step).skipKeyword))
    /\ isActionStep(stepOf(Val(step).nextStep))
    /\ Val(stepOf(Val(step).nextStep)).action = "addProduct"

\* the createProduct request of the call, if it makes one, has no image
requestWithoutImage(out) ==
    IsSome(out.pending) /\ Val(out.pending).io = "createProduct"
    => Val(Val(out.pending).req).images = << >>

\* C20: when the user sends the skip keyword at an optional ImageInput step
\* whose nextStep is the addProduct Action, the createProduct request of
\* that turn carries no image, after any sequence of earlier turns in the
\* same session.
SkipCarriesNoImage ==
    idle => \A chatId \in ChatIds, message \in AllMessages, uuid \in UUIDs :
        skipsImage(liveStep(store, chatId, now), message)
        => requestWithoutImage(process(store, chatId, message, now, uuid))

\* the buttons of the intent menu
intentMenu == buildButtonsFromChoice(flow.steps["awaiting_intent"])

\* out is the call of "Stock: 3": it awaits createProduct, asked for name W,
\* price 9.99 and stock 3; when the client answers with the created product
\* it returns the confirmation as preMessage with the intent menu, and no
\* further call of the client is pending
createsOnce(chatId, out) ==
    /\ out.result = Absent
    /\ IsSome(out.pending)
    /\ Val(out.pending).io = "createProduct"
    /\ Val(Val(out.pending).req).name = <<"W">>
    /\ Val(Val(out.pending).req).regular_price = <<"9", ".", "9", "9">>
    /\ Val(Val(out.pending).req).stock_quantity = Decimal(FALSE, 3, 0)
    /\ \A io \in IoResults :
           io.ok =>
             /\ resumeActionStep(out.st, Val(out.pending), io, now).result
                    = Some(FlowResult(TRUE,
                               Some(<< Part("add_product_received", <<"W">>) >>),
                               Absent, Some(intentMenu)))
             /\ resumeActionStep(out.st, Val(out.pending), io, now).pending = Absent
             /\ sessionOf(resumeActionStep(out.st, Val(out.pending), io, now).st,
                          chatId).currentStep = "awaiting_intent"

\* out is the call of the reply giving Name and Price only
afterPartialInput(chatId, out, uuid) ==
    /\ out.pending = Absent
    /\ IsSome(out.result)
    /\ Val(out.result).handled
    /\ IsSome(Val(out.result).response)
    /\ contains(Val(Val(out.result).response),
                << Part("add_product_missing_fields", << "Stock" >>) >>)
    /\ sessionOf(out.st, chatId).currentStep = "add_product"
    /\ createsOnce(chatId, process(out.st, chatId, M_stock, now, uuid))

\* out is the call of "add"
afterAdd(chatId, out, uuid) ==
    /\ out.pending = Absent
    /\ out.result = Some(FlowResult(TRUE, Absent,
                              Some(getMessage("add_product_prompt")), Absent))
    /\ afterPartialInput(chatId,
           process(out.st, chatId, M_namePrice, now, uuid), uuid)

\* out is the call of the trigger text
afterTrigger(chatId, out, uuid) ==
    /\ out.pending = Absent
    /\ out.result = Some(FlowResult(TRUE, Absent, Absent,
                              Some(withHeader(intentMenu, getMessage("welcome")))))
    /\ afterAdd(chatId, process(out.st, chatId, M_add, now, uuid), uuid)

\* C21: for the flow trigger -> intent Choice {list, add} -> product Input ->
\* create Action -> intent Choice with a working catalog client: the trigger
\* text returns the intent-menu buttons; "add" returns the prompt; a reply
\* giving only Name and Price returns a re-prompt listing Stock as missing
\* and leaves the session on the Input step; "Stock: 3" then executes the
\* create action exactly once with name W, price 9.99, stock 3 and returns
\* the product-added confirmation as preMessage with the intent menu.
EndToEndScenario ==
    idle /\ flow = directFlow /\ wooCommerce =>
        \A chatId \in ChatIds, uuid \in UUIDs :
            sessions[chatId] = Absent
            => afterTrigger(chatId, process(store, chatId, M_GO, now, uuid), uuid)

\* in the flow without an image step the catalog client has answered the
\* one createProduct of the record and the confirmation has been returned
EndToEndScenarioWitness ==
    /\ flow = directFlow
    /\ ev.op = "resume"
    /\ ev.result = Some(FlowResult(TRUE,
                            Some(<< Part("add_product_received", <<"W">>) >>),
                            Absent, Some(intentMenu)))
    /\ creates[ev.chatId] = 1
    /\ sessionOf(store, ev.chatId).currentStep = "awaiting_intent"

\* out has made a session for the chat, on the step after the trigger
sessionCreated(chatId, out) ==
    /\ IsSome(out.result)
    /\ Val(out.result).handled
    /\ IsSome(out.st.sessions[chatId])
    /\ sessionOf(out.st, chatId).currentStep
           = flow.steps[flow.initialStep].onMatch.nextStep
    /\ sessionOf(out.st, chatId).context = emptyContext

referencesOf(step) ==
    IF step.type = "trigger" THEN {step.onMatch.nextStep}
    ELSE IF step.type = "choice"
    THEN {step.transitions[o].nextStep : o \in DOMAIN step.transitions}
         \cup {step.onInvalid.nextStep}
    ELSE IF step.type \in {"input", "imageInput", "action"} THEN {step.nextStep}
    ELSE {}

\* every onMatch.nextStep, transition target, onInvalid.nextStep and
\* nextStep of the definition names a step of the definition
wellFormed(f) ==
    /\ f.initialStep \in DOMAIN f.steps
    /\ \A id \in DOMAIN f.steps : referencesOf(f.steps[id]) \subseteq DOMAIN f.steps

\* C23: for every flow definition in which every onMatch.nextStep,
\* transition target, onInvalid.nextStep and nextStep names an existing step,
\* after any sequence of process calls (user-input errors, stop and
\* collaborator failures included) every stored session's currentStep names
\* a step of that definition.
CurrentStepResolves ==
    wellFormed(flow) =>
        \A chatId \in ChatIds :
            IsSome(sessions[chatId])
            => sessionOf(store, chatId).currentStep \in DOMAIN flow.steps


(***************************************************************************)
(* C24: for a handled directive the webhook handler sends preMessage, when *)
(* present, as a text message strictly before the buttons or the response, *)
(* and then sends at most one of buttons and response: the buttons when    *)
(* both are present.                                                       *)
(***************************************************************************)
sentOf(fields) == {i \in DOMAIN ev.sent : ev.sent[i].of \in fields}

handledDirective ==
    ev.op = "handle" /\ ev.processed /\ Val(ev.result).handled

\* what the sender was asked for agrees with the directive
sendsInOrder(result) ==
    /\ \A i \in sentOf({"preMessage"}) :
          /\ ev.sent[i].call = "sendMessage"
          /\ ev.sent[i].content = Val(result.preMessage)
          /\ \A j \in sentOf({"buttons", "response"}) : i < j
    /\ Cardinality(sentOf({"buttons", "response"})) <= 1
    /\ IsSome(result.buttons) => sentOf({"response"}) = {}
    /\ \A i \in sentOf({"buttons"}) :
          ev.sent[i].call = "sendButtons" /\ ev.sent[i].content = Val(result.buttons)
    /\ \A i \in sentOf({"response"}) :
          ev.sent[i].call = "sendMessage" /\ ev.sent[i].content = Val(result.response)

\* with a sender that accepts every call, what is present is sent
sendsWhatIsPresent(result) ==
    /\ truthy(result.preMessage) => sentOf({"preMessage"}) # {}
    /\ IsSome(result.buttons) => sentOf({"buttons"}) # {}
    /\ (~IsSome(result.buttons) /\ truthy(result.response))
          => sentOf({"response"}) # {}

PreMessageFirst ==
    handledDirective =>
        /\ sendsInOrder(Val(ev.result))
        /\ ~ev.threw => sendsWhatIsPresent(Val(ev.result))

\* a directive with a preMessage, buttons and a response has been answered
PreMessageFirstWitness ==
    /\ handledDirective
    /\ truthy(Val(ev.result).preMessage)
    /\ IsSome(Val(ev.result).buttons)
    /\ truthy(Val(ev.result).response)
    /\ Len(ev.sent) = 2
    /\ ev.sent[1].of = "preMessage"
    /\ ev.sent[2].of = "buttons"


(***************************************************************************)
(* C25: the webhook handler sends only for a webhook of the type           *)
(* incomingMessageReceived that carries a supported message and for which  *)
(* process returned handled = true.  For another webhook type or an        *)
(* unsupported message type it returns handled = false without calling     *)
(* process, so no session changes; when process returns handled = false    *)
(* it sends nothing.                                                       *)
(***************************************************************************)
incoming(payload) == payload.typeWebhook = "incomingMessageReceived"

supportedType(payload) ==
    payload.typeMessage \in {"textMessage", "imageMessage"} \cup ButtonReplies

SendsOnlyWhenHandled ==
    [][ev'.op = "handle" =>
          /\ (~incoming(ev'.payload) \/ ~supportedType(ev'.payload))
                => /\ ~ev'.processed
                   /\ ~ev'.handled
                   /\ ev'.sent = << >>
                   /\ UNCHANGED << sessions, heap >>
          /\ ev'.sent # << >>
                => /\ incoming(ev'.payload)
                   /\ supportedType(ev'.payload)
                   /\ ev'.processed
                   /\ Val(ev'.result).handled
          /\ (ev'.processed /\ ~Val(ev'.result).handled)
                => (ev'.sent = << >> /\ ~ev'.handled)]_vars

\* a voice message has been ignored in the middle of a conversation
SendsOnlyWhenHandledWitness ==
    /\ ev.op = "handle"
    /\ ev.payload.typeMessage = "audioMessage"
    /\ ev.action = "ignored_unsupported"
    /\ ~ev.handled
    /\ IsSome(sessions["a"])
    /\ sessionOf(store, "a").currentStep # flow.initialStep


\* out is a call that has returned the onInvalid directive of the step and
\* has left the session of chatId on onInvalid.nextStep, otherwise as it was
invalidAt(chatId, step, out) ==
    /\ out.result = Some(invalidChoice(step))
    /\ out.pending = Absent
    /\ IsSome(out.st.sessions[chatId])
    /\ sessionOf(out.st, chatId) =
          [sessionOf(store, chatId) EXCEPT !.currentStep = step.onInvalid.nextStep]

\* C26: at a Choice step a message that is not text is treated as invalid
\* input: the onInvalid directive is returned and the stored session's
\* currentStep becomes onInvalid.nextStep, with no other change to the session.
NonTextAtChoice ==
    idle => \A chatId \in ChatIds, uuid \in UUIDs :
        isChoiceStep(liveStep(store, chatId, now)) =>
            invalidAt(chatId, Val(liveStep(store, chatId, now)),
                      process(store, chatId, M_image, now, uuid))


\* out is a call that has left nothing under the contextKey of the step
ownKeyCleared(chatId, step, out) ==
    /\ IsSome(out.st.sessions[chatId])
    /\ sessionOf(out.st, chatId).context[step.contextKey] = Absent

\* C27: a stop received at an ImageInput step also removes the value stored
\* under that step's own contextKey, whatever the contextKey is, as a stop at
\* an Input step removes context[contextKey].
StopClearsImageKey ==
    idle => \A chatId \in ChatIds, uuid \in UUIDs :
        isImageInputStep(liveStep(store, chatId, now)) =>
            ownKeyCleared(chatId, Val(liveStep(store, chatId, now)),
                          process(store, chatId, M_Stop, now, uuid))


isTerminalStep(step) == IsSome(step) /\ Val(step).type = "terminal"

\* the message of a Terminal step as the response of a handled turn
terminalResult(step) ==
    FlowResult(TRUE, Absent,
               IF IsSome(step.messageKey)
               THEN Some(getMessage(Val(step.messageKey))) ELSE Absent,
               Absent)

\* out is a call that has rendered the Terminal step and has left the
\* conversation ended on it
rendered(chatId, step, out) ==
    /\ out.result = Some(terminalResult(step))
    /\ out.pending = Absent
    /\ out.st = store

\* C28: when the current step of a session is a Terminal step, process
\* renders the message of the step, if any, as the response of a handled
\* turn and the flow ends there.
TerminalRendered ==
    idle => \A chatId \in ChatIds, message \in FlowMessages, uuid \in UUIDs :
        isTerminalStep(liveStep(store, chatId, now)) =>
            rendered(chatId, Val(liveStep(store, chatId, now)),
                     process(store, chatId, message, now, uuid))


\* the message is a text that matches an option of the step for which
\* transitions has no entry
unrouted(step, message) ==
    /\ message.type = "text"
    /\ truthy(matchChoiceOption(step, message.content))
    /\ Val(matchChoiceOption(step, message.content)) \notin DOMAIN step.transitions

\* the onInvalid message of the step as a plain text
invalidText(step) ==
    FlowResult(TRUE, Absent, Some(getMessage(step.onInvalid.messageKey)), Absent)

\* the two calls have returned the same directive and have left the same store
sameOutcome(out, other) ==
    /\ out.result = other.result
    /\ out.pending = other.pending
    /\ out.st = other.st

\* out is a call that has answered with the onInvalid message as a text and
\* has left the store as it was
answeredInPlace(step, out) ==
    /\ out.result = Some(invalidText(step))
    /\ out.pending = Absent
    /\ out.st = store

\* C29, as stated: a Choice input that matches an option for which
\* transitions has no entry is handled exactly like an input that matches no
\* option: the same directive is returned and the session ends the turn in
\* the same state, on onInvalid.nextStep.
UnroutedLikeNoMatch ==
    idle => \A chatId \in ChatIds, message \in FlowMessages, uuid \in UUIDs :
        (/\ isChoiceStep(liveStep(store, chatId, now))
         /\ unrouted(Val(liveStep(store, chatId, now)), message)
         /\ unmatchedText(Val(liveStep(store, chatId, now)), M_hi))
        => sameOutcome(process(store, chatId, message, now, uuid),
                       process(store, chatId, M_hi, now, uuid))

\* C29, amended: a Choice input that matches an option for which transitions
\* has no entry is answered, handled, with the onInvalid message as a plain
\* text response, and the stored session is left as it was: it is not moved
\* to onInvalid.nextStep and not stored again.
UnroutedAnsweredInPlace ==
    idle => \A chatId \in ChatIds, message \in FlowMessages, uuid \in UUIDs :
        (/\ isChoiceStep(liveStep(store, chatId, now))
         /\ unrouted(Val(liveStep(store, chatId, now)), message))
        => answeredInPlace(Val(liveStep(store, chatId, now)),
                           process(store, chatId, message, now, uuid))

\* the option without a transition has been chosen and answered with the
\* text, where an input that matches no option is answered with buttons
UnroutedAnsweredInPlaceWitness ==
    /\ ev.op = "process" /\ ev.step = "awaiting_intent"
    /\ flow = unroutedFlow
    /\ ev.result = Some(invalidText(flow.steps["awaiting_intent"]))
    /\ IsSome(invalidChoice(flow.steps["awaiting_intent"]).buttons)
    /\ sessionOf(store, ev.chatId).currentStep = "awaiting_intent"


\* C30: a flow definition in which a nextStep or a transition target names no
\* step of the definition is rejected when it is loaded: no message is ever
\* processed against such a definition.
DanglingFlowRejected ==
    ev.op \in {"process", "resume"} => wellFormed(flow)


isTriggerStep(step) == IsSome(step) /\ Val(step).type = "trigger"

\* the match of a conversation without a session: a text that passes the
\* trigger condition
triggers(message) == message.type = "text" /\ specTriggerMatch(message.content)

\* out is a call that has put a new session with an empty context on
\* onMatch.nextStep of the step in the place of the stored one
restarted(chatId, step, out) ==
    /\ IsSome(out.result)
    /\ Val(out.result).handled
    /\ IsSome(out.st.sessions[chatId])
    /\ out.st.sessions[chatId] # sessions[chatId]
    /\ sessionOf(out.st, chatId) = createSession(chatId, step.onMatch.nextStep, now)

\* out is a call that has answered as for no match and has left the store
unmatched(step, out) ==
    /\ out.result = Some(FlowResult(step.onNoMatch.handled, Absent, Absent, Absent))
    /\ out.pending = Absent
    /\ out.st = store

\* C31: when the current step of a live session is a Trigger step, process
\* applies the match logic of a conversation without a session: on a match
\* the stored session is replaced by a new one with an empty context and
\* currentStep = onMatch.nextStep; without a match the result is
\* {handled: onNoMatch.handled} and the stored session is unchanged.
TriggerOnLiveSession ==
    idle => \A chatId \in ChatIds, message \in FlowMessages, uuid \in UUIDs :
        isTriggerStep(liveStep(store, chatId, now)) =>
            IF triggers(message)
            THEN restarted(chatId, Val(liveStep(store, chatId, now)),
                           process(store, chatId, message, now, uuid))
            ELSE unmatched(Val(liveStep(store, chatId, now)),
                           process(store, chatId, message, now, uuid))

\* a session sitting on the Trigger step has been restarted by the trigger
TriggerOnLiveSessionWitness ==
    /\ ev.op = "process" /\ ev.step = "awaiting_trigger"
    /\ IsSome(ev.result)
    /\ Val(ev.result).handled
    /\ sessionOf(store, ev.chatId).currentStep = "awaiting_intent"
    /\ sessionOf(store, ev.chatId).context = emptyContext


\* the message supplies a value for the field that is not a valid one
invalidField(fields) ==
    \/ fields[T_name] # Absent /\ ~validName(Val(fields[T_name]))
    \/ fields[T_price] # Absent /\ ~validPrice(Val(fields[T_price]))
    \/ fields[T_stock] # Absent /\ ~validStock(Val(fields[T_stock]))

\* the message is a user-input error at the step: an unmatched choice, an
\* invalid field value, or a message of the wrong kind for the step
userInputError(step, message) ==
    \/ /\ step.type = "choice"
       /\ message.type # "text" \/ unmatchedText(step, message)
    \/ /\ step.type = "input" /\ step.contextKey = "productInput"
       /\ \/ message.type # "text"
          \/ ~isStopText(message) /\ invalidField(parseInputFields(message.content))
    \/ /\ step.type = "imageInput"
       /\ message.type = "text" /\ ~changesImageState(step, message)

\* out is a handled turn that has answered with a prompt and has kept the
\* session of chatId and its staged image
rePromptedKeeping(chatId, out) ==
    /\ IsSome(out.result)
    /\ Val(out.result).handled
    /\ truthy(Val(out.result).response) \/ IsSome(Val(out.result).buttons)
    /\ out.st.sessions[chatId] = sessions[chatId]
    /\ sessionOf(out.st, chatId).context["productImage"]
           = sessionOf(store, chatId).context["productImage"]

\* every field of R is a field of S with the same value
sameValues(R, S) ==
    /\ R.name # Absent => S.name = R.name
    /\ R.price # Absent => S.price = R.price
    /\ R.stock # Absent => S.stock = R.stock
    /\ R.description # Absent => S.description = R.description

\* the fields of a message that is not a text of the product Input step
fieldsOf(step, message) ==
    IF step.type = "input" /\ message.type = "text"
    THEN parseInputFields(message.content) ELSE noFields

\* C32, as stated: for every user-input error the turn is handled with a
\* re-prompt, the session is kept, and every field already present in the
\* staged record is still present with the same value after the turn.
ErrorKeepsStagedValues ==
    idle => \A chatId \in ChatIds, message \in AllMessages, uuid \in UUIDs :
        (/\ IsSome(liveStep(store, chatId, now))
         /\ userInputError(Val(liveStep(store, chatId, now)), message))
        => /\ rePromptedKeeping(chatId, process(store, chatId, message, now, uuid))
           /\ sameValues(stagedRecord(store, chatId),
                         stagedRecord(process(store, chatId, message, now, uuid).st,
                                      chatId))

\* C32, amended: for every user-input error the turn is handled with a
\* re-prompt, the session is kept, and every field already present in the
\* staged record is still present after the turn, with the same value unless
\* the message itself supplies a valid new value for that field.
ErrorKeepsStagedFields ==
    idle => \A chatId \in ChatIds, message \in AllMessages, uuid \in UUIDs :
        (/\ IsSome(liveStep(store, chatId, now))
         /\ userInputError(Val(liveStep(store, chatId, now)), message))
        => /\ rePromptedKeeping(chatId, process(store, chatId, message, now, uuid))
           /\ recordKept(stagedRecord(store, chatId),
                         stagedRecord(process(store, chatId, message, now, uuid).st,
                                      chatId),
                         fieldsOf(Val(liveStep(store, chatId, now)), message))

\* an invalid price has been answered with the re-prompt at the product
\* Input step, the stock staged before still being there
ErrorKeepsStagedFieldsWitness ==
    /\ ev.op = "process" /\ ev.step = "add_product"
    /\ IsSome(ev.result)
    /\ Val(ev.result).handled
    /\ truthy(Val(ev.result).response)
    /\ \E i \in DOMAIN Val(Val(ev.result).response) :
          /\ Val(Val(ev.result).response)[i].key = "errors"
          /\ Val(Val(ev.result).response)[i].arg = << "validation_error_price" >>
    /\ sessionOf(store, ev.chatId).currentStep = "add_product"
    /\ stagedRecord(store, ev.chatId).stock # Absent
    /\ stagedRecord(store, ev.chatId).price = Absent


\* the whole of str is a decimal numeral: an optional sign, digits, and an
\* optional fraction
wholeNumeral(str) ==
    LET u == IF str # << >> /\ Head(str) \in {"+", "-"} THEN Tail(str) ELSE str
    IN  /\ \E i \in DOMAIN u : IsDigit(u[i])
        /\ \A i \in DOMAIN u : IsDigit(u[i]) \/ u[i] = "."
        /\ Cardinality({i \in DOMAIN u : u[i] = "."}) <= 1

\* the whole value denotes a positive finite number
denotesPrice(value) ==
    /\ wholeNumeral(value)
    /\ parseFloat(value).kind = "num"
    /\ isPositive(parseFloat(value))

\* the whole value denotes a non-negative integer
denotesStock(value) ==
    /\ wholeNumeral(value)
    /\ isInteger(parseFloat(value))
    /\ isNonNegative(parseFloat(value))

\* the merge has reported exactly one error under the key and has left the
\* field as it was
rejected(key, before, after) ==
    /\ Cardinality({i \in DOMAIN ev.merged.errors :
                       ev.merged.errors[i].key = key}) = 1
    /\ after = before

\* C33: a supplied price is accepted into the staged record only if the
\* whole value denotes a positive finite number, and a supplied stock only if
\* the whole value denotes a non-negative integer; any other supplied value
\* adds exactly one error for that field and sets no value.
WholeValueValidated ==
    ev.op = "validate" =>
        /\ (IsSome(ev.newFields[T_price]) /\ ~denotesPrice(Val(ev.newFields[T_price])))
              => rejected("validation_error_price", ev.existingData.price,
                          ev.merged.product.price)
        /\ (IsSome(ev.newFields[T_stock]) /\ ~denotesStock(Val(ev.newFields[T_stock])))
              => rejected("validation_error_stock", ev.existingData.stock,
                          ev.merged.product.stock)


\* the Action step the call for the message executes: the step the session
\* is on, or the one its turn leads to; absent when there is none
firstAction(step, message) ==
    IF isActionStep(step) THEN step
    ELSE IF IsSome(actionOfTurn(step, message))
    THEN stepOf(Val(actionOfTurn(step, message)))
    ELSE Absent

\* out, the call run to its end, has gone one step past the Action step and
\* has left the step after it, an Action step or not, to a later call
oneAction(chatId, action, out) ==
    /\ out.pending = Absent
    /\ IsSome(out.result)
    /\ Val(out.result).handled
    /\ IsSome(out.st.sessions[chatId])
    /\ sessionOf(out.st, chatId).currentStep = action.nextStep

\* out, a call up to its return or its await, goes one step past the Action
\* step whatever the catalog client answers
oneActionAlways(chatId, action, out) ==
    IF IsSome(out.pending)
    THEN \A io \in IoResults : oneAction(chatId, action, settled(out, io, now))
    ELSE oneAction(chatId, action, out)

\* C34: one process call executes at most one Action step, and with it at
\* most one call of the catalog client, for every flow definition, one whose
\* Action steps point at each other in a cycle included.
BoundedChaining ==
    /\ Len(calls) <= 1
    /\ idle => \A chatId \in ChatIds, message \in FlowMessages, uuid \in UUIDs :
           IsSome(firstAction(liveStep(store, chatId, now), message))
           => oneActionAlways(chatId,
                  Val(firstAction(liveStep(store, chatId, now), message)),
                  process(store, chatId, message, now, uuid))

\* in the flow whose Action steps form a cycle, a call has run the
\* listProducts action and has left the session on the addProduct action
BoundedChainingWitness ==
    /\ flow = cyclicFlow
    /\ ev.op = "resume"
    /\ IsSome(ev.result)
    /\ Val(ev.result).handled
    /\ calls = << >>
    /\ sessionOf(store, ev.chatId).currentStep = "process_add_product"


\* out is a call that has moved the session of chatId onto the product
\* Input step
entersProductInput(chatId, out) ==
    /\ IsSome(out.st.sessions[chatId])
    /\ isInputStep(stepOf(sessionOf(out.st, chatId).currentStep))
    /\ Val(stepOf(sessionOf(out.st, chatId).currentStep)).contextKey = "productInput"

\* C35: whenever a turn moves a session from the intent-selection Choice step
\* into the product Input step, the session holds no staged record and no
\* staged image, after any sequence of earlier turns in that session.
AddStartsUnstaged ==
    idle => \A chatId \in ChatIds, message \in AllMessages, uuid \in UUIDs :
        (/\ isChoiceStep(liveStep(store, chatId, now))
         /\ entersProductInput(chatId, process(store, chatId, message, now, uuid)))
        => noStagedRecord(process(store, chatId, message, now, uuid).st, chatId)


\* out is a call that has returned handled and has left the session of
\* chatId with a full timeout ahead of it
refreshed(chatId, out) ==
    (IsSome(out.result) /\ Val(out.result).handled)
    => /\ IsSome(out.st.sessions[chatId])
       /\ sessionOf(out.st, chatId).expiresAt = now + timeoutMs

\* C36: the session timeout counts inactivity: every process call that finds
\* a live session and returns handled=true refreshes the expiry of that
\* session to now + timeout, the turns that only re-prompt included.
HandledTurnRefreshes ==
    idle => \A chatId \in ChatIds, message \in AllMessages, uuid \in UUIDs :
        hasLiveSession(store, chatId, now)
        => refreshed(chatId, process(store, chatId, message, now, uuid))


\* the ids of the buttons, in their order
buttonIds(buttons) == [i \in DOMAIN buttons.options |-> buttons.options[i].buttonId]

\* the ids of the options of the Choice step, in declaration order
optionIds(step) == [i \in DOMAIN step.options |-> step.options[i].id]

\* the buttons of the result, if it has any, are those of the Choice step the
\* session of chatId is left on
menuOfStoredStep(chatId, out) ==
    (IsSome(out.result) /\ IsSome(Val(out.result).buttons))
    => /\ IsSome(out.st.sessions[chatId])
       /\ isChoiceStep(stepOf(sessionOf(out.st, chatId).currentStep))
       /\ buttonIds(Val(Val(out.result).buttons))
              = optionIds(Val(stepOf(sessionOf(out.st, chatId).currentStep)))

\* out is a call up to its return or its await, which ends whatever the
\* catalog client answers with the menu of the stored step
menuAlways(chatId, out) ==
    IF IsSome(out.pending)
    THEN \A io \in IoResults : menuOfStoredStep(chatId, settled(out, io, now))
    ELSE menuOfStoredStep(chatId, out)

\* C37: whenever process returns a directive with buttons, the button ids
\* are exactly the option ids, in declaration order, of the Choice step that
\* the stored session's currentStep names after the call.
ButtonsOfStoredStep ==
    idle => \A chatId \in ChatIds, message \in FlowMessages, uuid \in UUIDs :
        menuAlways(chatId, process(store, chatId, message, now, uuid))


\* the store after the step
storeAfter == [sessions |-> sessions', heap |-> heap']

\* the step leaves the session stored for chatId, or its absence, as it was
untouched(chatId) ==
    /\ IsSome(sessions'[chatId]) <=> IsSome(sessions[chatId])
    /\ IsSome(sessions[chatId])
          => sessionOf(storeAfter, chatId) = sessionOf(store, chatId)

\* C38: conversation isolation: a process call for a conversation id A never
\* creates, changes or deletes the stored session of another id B, whose
\* currentStep, context and expiry stay as they were, for every interleaving
\* of the calls for A and B.
ConversationIsolation ==
    [][ev'.op \in {"process", "resume"} =>
          \A B \in ChatIds \ {ev'.chatId} : untouched(B)]_vars

\* a call for a has been answered while b holds a session with a staged
\* record and a holds one too
ConversationIsolationWitness ==
    /\ ev.op \in {"process", "resume"} /\ ev.chatId = "a"
    /\ IsSome(sessions["a"])
    /\ IsSome(sessions["b"])
    /\ IsSome(sessionOf(store, "b").context["productData"])
    /\ sessionOf(store, "a").currentStep # sessionOf(store, "b").currentStep


\* the text of the result reports a product made by createProduct
reportsCreated(text) ==
    \E i \in DOMAIN text : text[i].key = "add_product_received"

\* the call that has just ended was an addProduct Action whose createProduct
\* call succeeded
productCreated ==
    /\ ev.op = "resume"
    /\ IsSome(ev.result)
    /\ \/ truthy(Val(ev.result).preMessage)
          /\ reportsCreated(Val(Val(ev.result).preMessage))
       \/ truthy(Val(ev.result).response)
          /\ reportsCreated(Val(Val(ev.result).response))

\* C39: after an addProduct Action whose createProduct call succeeded, the
\* stored session's context contains neither productData nor productImage.
CreatedClearsStaged ==
    productCreated =>
        /\ IsSome(sessions[ev.chatId])
        /\ sessionOf(store, ev.chatId).context["productData"] = Absent
        /\ sessionOf(store, ev.chatId).context["productImage"] = Absent

\* a product has been made and its session is stored on the step after the
\* action
CreatedClearsStagedWitness ==
    /\ productCreated
    /\ IsSome(sessions[ev.chatId])
    /\ sessionOf(store, ev.chatId).currentStep = "awaiting_intent"
    /\ creates[ev.chatId] > 0

=============================================================================
